---- MODULE Spec2Model ----
(***************************************************************************)
(* Monthly energy balance of a building energy sector: internal gains,     *)
(* transmission and ventilation losses, net heating needs, overheating     *)
(* risk, net cooling needs.                                                *)
(*                                                                         *)
(* Numbers.  A float is modelled as a pair <<n, d>>:                       *)
(*   d > 0  : the rational n/d in lowest terms (exact arithmetic, the      *)
(*            rounding of binary64 is not modelled);                       *)
(*   d = 0  : an IEEE special value, <<1,0>> = +inf, <<-1,0>> = -inf,      *)
(*            <<0,0>> = NaN.                                               *)
(* numpy's array division yields the special values on a zero divisor,     *)
(* Python's scalar division raises ZeroDivisionError; both are modelled.   *)
(* A monthly series (numpy.ndarray) is a sequence of such pairs.           *)
(*                                                                         *)
(* State.  call is the operation under way with its arguments, obj the     *)
(* object or value it produced, err the exception it raised, and prev the  *)
(* outcome of an earlier evaluation of the same call.                      *)
(***************************************************************************)
EXTENDS Integers, Sequences, FiniteSets, TLC

VARIABLES call, obj, err, prev

vars == <<call, obj, err, prev>>

(* ----------------------------- floats -------------------------------- *)

Abs(n) == IF n < 0 THEN -n ELSE n

Sgn(n) == IF n < 0 THEN -1 ELSE IF n > 0 THEN 1 ELSE 0

RECURSIVE GCD(_, _)
GCD(a, b) == IF b = 0 THEN a ELSE GCD(b, a % b)

Norm(n, d) ==
    IF d = 0 THEN <<Sgn(n), 0>>
    ELSE LET g == GCD(Abs(n), Abs(d))
         IN  <<(Sgn(d) * n) \div g, Abs(d) \div g>>

F(n) == <<n, 1>>

NaN == <<0, 0>>
PInf == <<1, 0>>
NInf == <<-1, 0>>

IsNaN(x) == x = NaN
IsInf(x) == x[2] = 0 /\ x[1] # 0
IsFinite(x) == x[2] > 0

Neg(x) == <<-x[1], x[2]>>

Add(x, y) ==
    IF IsNaN(x) \/ IsNaN(y) THEN NaN
    ELSE IF IsInf(x) /\ IsInf(y) THEN (IF x = y THEN x ELSE NaN)
    ELSE IF IsInf(x) THEN x
    ELSE IF IsInf(y) THEN y
    ELSE LET g == GCD(x[2], y[2])
         IN  Norm(x[1] * (y[2] \div g) + y[1] * (x[2] \div g),
                  (x[2] \div g) * y[2])

Sub(x, y) == Add(x, Neg(y))

Mul(x, y) ==
    IF IsNaN(x) \/ IsNaN(y) THEN NaN
    ELSE IF IsInf(x) \/ IsInf(y)
         THEN <<Sgn(x[1]) * Sgn(y[1]), 0>>      \* inf * 0 = NaN
    ELSE LET g1 == GCD(Abs(x[1]), y[2])
             g2 == GCD(Abs(y[1]), x[2])
         IN  Norm((x[1] \div g1) * (y[1] \div g2),
                  (x[2] \div g2) * (y[2] \div g1))

(* numpy true division: a zero divisor gives +-inf or NaN with a warning. *)
NpDiv(x, y) ==
    IF IsNaN(x) \/ IsNaN(y) THEN NaN
    ELSE IF IsInf(y) THEN (IF IsInf(x) THEN NaN ELSE F(0))
    ELSE IF y[1] = 0 THEN <<Sgn(x[1]), 0>>      \* 0/0 = NaN, x/0 = +-inf
    ELSE IF IsInf(x) THEN <<Sgn(x[1]) * Sgn(y[1]), 0>>
    ELSE Mul(x, Norm(y[2], y[1]))

(* Comparisons: every comparison with NaN is false. *)
Lt(x, y) ==
    IF IsNaN(x) \/ IsNaN(y) THEN FALSE
    ELSE IF x[2] = 0 THEN x[1] = -1 /\ y # NInf
    ELSE IF y[2] = 0 THEN y[1] = 1
    ELSE x[1] * y[2] < y[1] * x[2]

Eq(x, y) == ~IsNaN(x) /\ ~IsNaN(y) /\ x = y

Le(x, y) == Lt(x, y) \/ Eq(x, y)

Ge(x, y) == Le(y, x)

Gt(x, y) == Lt(y, x)

(* x ** a for an exponent a that holds a non-negative integer. *)
RECURSIVE PowInt(_, _)
PowInt(x, k) == IF k = 0 THEN F(1) ELSE Mul(x, PowInt(x, k - 1))

Pow(x, a) == PowInt(x, a[1])

(* Python's built-in min(a, b) and max(a, b): b wins only if b < a / b > a. *)
PyMin(a, b) == IF Lt(b, a) THEN b ELSE a

PyMax(a, b) == IF Gt(b, a) THEN b ELSE a

(* Elementwise array arithmetic. *)
VAdd(x, y) == [m \in 1..Len(x) |-> Add(x[m], y[m])]
VSub(x, y) == [m \in 1..Len(x) |-> Sub(x[m], y[m])]
VMul(x, y) == [m \in 1..Len(x) |-> Mul(x[m], y[m])]
VDiv(x, y) == [m \in 1..Len(x) |-> NpDiv(x[m], y[m])]
SMul(s, x) == [m \in 1..Len(x) |-> Mul(s, x[m])]

(* Python scalar true division: raises ZeroDivisionError on a zero divisor. *)
PyDivRaises(y) == IsFinite(y) /\ y[1] = 0

PyDiv(x, y) == NpDiv(x, y)

(* ----------------------------- inputs -------------------------------- *)

NMonths == 2

Months == 1..NMonths

(* Month lengths in Ms: 31, 28 and 30 days. *)
TmVals == {Norm(26784, 10000), Norm(24192, 10000), Norm(2592, 1000)}

Volumes == {F(0), F(10), F(192), Norm(385, 2), F(193), F(300)}

(* Monthly gains and losses [MJ] of the heating path. *)
QSolarVals == {F(0), F(1)}
QIntVals == {F(0), F(10)}
QTransVals == {F(0), F(4), F(10)}
QVentVals == {F(-2), F(0)}

(* <<C_sec_i, H_trans, H_vent>> of the heating path *)
HeatSectors == {<<F(108000), F(1), F(1)>>, <<F(216000), F(1), F(1)>>,
                <<F(108000), F(0), F(0)>>}

(* <<C_sec_i, H_trans>> of the overheating and cooling paths, and the
   monthly ventilation coefficients [W/K] *)
MonthlySectors == {<<F(216000), F(1)>>}

HVentSeries == {[m \in Months |-> IF m % 2 = 1 THEN F(1) ELSE F(3)],
                [m \in Months |-> IF m % 2 = 1 THEN F(3) ELSE F(1)]}

OverhQSolarVals == {F(0), F(20)}
OverhQIntVals == {F(0), F(20)}
OverhQTransVals == {F(0), F(20), F(40)}

CoolQSolarVals == {F(0), F(6)}
CoolQIntVals == {F(0), F(4)}
CoolQTransVals == {F(0), F(10)}
CoolQVentVals == {F(0), F(5)}

PCoolVals == {F(0), Norm(1, 2), F(1)}

IOverhVals == {F(-5), F(0), F(1), F(999), F(1000), F(1001), F(3750), F(6499),
               F(6500), F(6501), F(7000), F(130000), F(200000), PInf, NInf, NaN}

(* Outdoor temperatures [degC] and heat transfer coefficients [W/K] of the
   loss calculations. *)
TeVals == {Norm(32, 10), F(18), F(22), F(25)}

(* Month lengths of the loss calculations: 31 and 28 days. *)
LossTmVals == {Norm(26784, 10000), Norm(24192, 10000)}

HTransVals == {F(50), F(120)}

HVentHeatVals == {F(10), F(30)}

HVentLossSeries == {[m \in Months |-> IF m % 2 = 1 THEN F(10) ELSE F(30)],
                    [m \in Months |-> IF m % 2 = 1 THEN F(30) ELSE F(10)]}

(* Numbers of baths and sinks handed to the DHW function. *)
NPointVals == {F(0), F(1), F(2), F(3)}

Series(S) == [Months -> S]

(* ------------------------- gains and losses -------------------------- *)

(* Variant with the volume threshold taken strictly. *)
internal_gains_strict(V_sec_i, t_m) ==
    LET V_EPR == V_sec_i
    IN  IF Lt(V_EPR, F(192))
        THEN SMul(PyDiv(Mul(Add(Mul(Norm(141, 100), V_EPR), F(78)), V_sec_i),
                        V_EPR), t_m)
        ELSE SMul(PyDiv(Mul(Add(Mul(Norm(67, 100), V_EPR), F(220)), V_sec_i),
                        V_EPR), t_m)

internal_gains(V_sec_i, t_m) ==
    LET V_EPR == V_sec_i
    IN  IF Le(V_EPR, F(192))
        THEN SMul(PyDiv(Mul(Add(Mul(Norm(141, 100), V_EPR), F(78)), V_sec_i),
                        V_EPR), t_m)
        ELSE SMul(PyDiv(Mul(Add(Mul(Norm(67, 100), V_EPR), F(220)), V_sec_i),
                        V_EPR), t_m)

InternalGains ==
    /\ call.op = "InternalGains" /\ obj.type = "pending"
    /\ IF PyDivRaises(call.V_sec_i)
       THEN /\ err' = "ZeroDivisionError"
            /\ obj' = [type |-> "none"]
       ELSE LET Q_int_heat_sec_i_m == internal_gains(call.V_sec_i, call.t_m)
            IN  /\ err' = "none"
                /\ obj' = [type |-> "InternalGains",
                           Q_int_heat_sec_i_m |-> Q_int_heat_sec_i_m,
                           Q_int_overh_sec_i_m |-> Q_int_heat_sec_i_m,
                           Q_int_cool_sec_i_m |-> Q_int_heat_sec_i_m]
    /\ UNCHANGED <<call, prev>>

(* Variant with the temperature difference reversed (T_e - 18). *)
transmission_losses_heating_reversed(H_trans_heat_sec_i, T_e_m, t_m) ==
    [m \in 1..Len(T_e_m) |->
        Mul(Mul(H_trans_heat_sec_i, Sub(T_e_m[m], F(18))), t_m[m])]

transmission_losses_heating(H_trans_heat_sec_i, T_e_m, t_m) ==
    [m \in 1..Len(T_e_m) |->
        Mul(Mul(H_trans_heat_sec_i, Sub(F(18), T_e_m[m])), t_m[m])]

transmission_losses_overheating(H_trans_overh_sec_i, T_e_m, t_m) ==
    [m \in 1..Len(T_e_m) |->
        Mul(Mul(H_trans_overh_sec_i, Sub(F(23), Add(T_e_m[m], F(1)))), t_m[m])]

transmission_losses_cooling(H_trans_cool_sec_i, T_e_m, t_m) ==
    [m \in 1..Len(T_e_m) |->
        Mul(Mul(H_trans_cool_sec_i, Sub(F(23), Add(T_e_m[m], F(1)))), t_m[m])]

TransmissionLosses ==
    /\ call.op = "TransmissionLosses" /\ obj.type = "pending"
    /\ err' = "none"
    /\ obj' = [type |-> "TransmissionLosses",
               H_trans_heat_sec_i |-> call.H_trans_heat_sec_i,
               H_trans_overh_sec_i |-> call.H_trans_overh_sec_i,
               H_trans_cool_sec_i |-> call.H_trans_cool_sec_i,
               Q_trans_heat_sec_i_m |->
                   transmission_losses_heating(call.H_trans_heat_sec_i,
                                               call.T_e_m, call.t_m),
               Q_trans_overh_sec_i_m |->
                   transmission_losses_overheating(call.H_trans_overh_sec_i,
                                                   call.T_e_m, call.t_m),
               Q_trans_cool_sec_i_m |->
                   transmission_losses_cooling(call.H_trans_cool_sec_i,
                                               call.T_e_m, call.t_m)]
    /\ UNCHANGED <<call, prev>>

(* The function variant of the transmission losses: one generic helper with
   the indoor temperature as a scalar argument. *)
fn_transmission_losses(H_trans_sec_i, T_i_m, T_e_m, t_m) ==
    [m \in 1..Len(T_e_m) |->
        Mul(Mul(H_trans_sec_i, Sub(T_i_m, T_e_m[m])), t_m[m])]

fn_transmission_losses_heating_value(H_trans_heat_sec_i, T_e_m, t_m) ==
    LET T_i_m == F(18)
    IN  fn_transmission_losses(H_trans_heat_sec_i, T_i_m, T_e_m, t_m)

(* Variant without the 1 K shift of the outdoor temperature. *)
fn_transmission_losses_overheating_value_no_shift(H_trans_overh_sec_i, T_e_m, t_m) ==
    LET T_i_m == F(23)
    IN  fn_transmission_losses(H_trans_overh_sec_i, T_i_m, T_e_m, t_m)

fn_transmission_losses_overheating_value(H_trans_overh_sec_i, T_e_m, t_m) ==
    LET T_i_m == F(23)
        T_e_m_shifted == [m \in 1..Len(T_e_m) |-> Add(T_e_m[m], F(1))]
    IN  fn_transmission_losses(H_trans_overh_sec_i, T_i_m, T_e_m_shifted, t_m)

fn_transmission_losses_cooling_value(H_trans_cool_sec_i, T_e_m, t_m) ==
    LET T_i_m == F(23)
        T_e_m_shifted == [m \in 1..Len(T_e_m) |-> Add(T_e_m[m], F(1))]
    IN  fn_transmission_losses(H_trans_cool_sec_i, T_i_m, T_e_m_shifted, t_m)

(* Variant that shifts the argument array itself (T_e_m += 1). *)
T_e_m_argument_after_shift_in_place(T_e_m) ==
    [m \in 1..Len(T_e_m) |-> Add(T_e_m[m], F(1))]

(* The caller's array after "T_e_m = T_e_m + 1": the sum is a new array
   bound to the local name, the argument array keeps its values. *)
T_e_m_argument_after_shift(T_e_m) == T_e_m

fn_transmission_losses_heating ==
    /\ call.op = "transmission_losses_heating" /\ obj.type = "pending"
    /\ err' = "none"
    /\ obj' = [type |-> "ndarray",
               value |-> fn_transmission_losses_heating_value(
                             call.H_trans_sec_i, call.T_e_m, call.t_m)]
    /\ UNCHANGED <<call, prev>>

fn_transmission_losses_overheating ==
    /\ call.op = "transmission_losses_overheating" /\ obj.type = "pending"
    /\ err' = "none"
    /\ obj' = [type |-> "ndarray",
               value |-> fn_transmission_losses_overheating_value(
                             call.H_trans_sec_i, call.T_e_m, call.t_m)]
    /\ call' = [call EXCEPT !.T_e_m = T_e_m_argument_after_shift(call.T_e_m)]
    /\ UNCHANGED prev

fn_transmission_losses_cooling ==
    /\ call.op = "transmission_losses_cooling" /\ obj.type = "pending"
    /\ err' = "none"
    /\ obj' = [type |-> "ndarray",
               value |-> fn_transmission_losses_cooling_value(
                             call.H_trans_sec_i, call.T_e_m, call.t_m)]
    /\ call' = [call EXCEPT !.T_e_m = T_e_m_argument_after_shift(call.T_e_m)]
    /\ UNCHANGED prev

ventilation_losses_heating(H_vent_heat_sec_i, T_e_m, t_m) ==
    [m \in 1..Len(T_e_m) |->
        Mul(Mul(H_vent_heat_sec_i, Sub(F(18), T_e_m[m])), t_m[m])]

(* Variant with the heating temperature difference. *)
ventilation_losses_overheating_as_heating(H_vent_overh_sec_i_m, T_e_m, t_m) ==
    [m \in 1..Len(T_e_m) |->
        Mul(Mul(H_vent_overh_sec_i_m[m], Sub(F(18), T_e_m[m])), t_m[m])]

ventilation_losses_overheating(H_vent_overh_sec_i_m, T_e_m, t_m) ==
    [m \in 1..Len(T_e_m) |->
        Mul(Mul(H_vent_overh_sec_i_m[m], Sub(F(23), Add(T_e_m[m], F(1)))),
            t_m[m])]

ventilation_losses_cooling(H_vent_cool_sec_i_m, T_e_m, t_m) ==
    [m \in 1..Len(T_e_m) |->
        Mul(Mul(H_vent_cool_sec_i_m[m], Sub(F(23), Add(T_e_m[m], F(1)))),
            t_m[m])]

VentilationLosses ==
    /\ call.op = "VentilationLosses" /\ obj.type = "pending"
    /\ err' = "none"
    /\ obj' = [type |-> "VentilationLosses",
               H_vent_heat_sec_i |-> call.H_vent_heat_sec_i,
               H_vent_overh_sec_i_m |-> call.H_vent_overh_sec_i_m,
               H_vent_cool_sec_i_m |-> call.H_vent_cool_sec_i_m,
               Q_vent_heat_sec_i_m |->
                   ventilation_losses_heating(call.H_vent_heat_sec_i,
                                              call.T_e_m, call.t_m),
               Q_vent_overh_sec_i_m |->
                   ventilation_losses_overheating(call.H_vent_overh_sec_i_m,
                                                  call.T_e_m, call.t_m),
               Q_vent_cool_sec_i_m |->
                   ventilation_losses_cooling(call.H_vent_cool_sec_i_m,
                                              call.T_e_m, call.t_m)]
    /\ UNCHANGED <<call, prev>>

(* -------------------------- net heating needs ------------------------ *)

(* Variant that substitutes 0 for the ratio of a month without losses. *)
heat_balance_ratio_guarded(Q_solar, Q_int, Q_trans, Q_vent) ==
    LET Q_loss_heat_sec_i_m == VAdd(Q_trans, Q_vent)
        Q_gain_heat_sec_i_m == VAdd(Q_int, Q_solar)
    IN  [m \in 1..Len(Q_loss_heat_sec_i_m) |->
            IF Q_loss_heat_sec_i_m[m] = F(0)
            THEN F(0)
            ELSE NpDiv(Q_gain_heat_sec_i_m[m], Q_loss_heat_sec_i_m[m])]

heat_balance_ratio(Q_solar, Q_int, Q_trans, Q_vent) ==
    LET Q_loss_heat_sec_i_m == VAdd(Q_trans, Q_vent)
        Q_gain_heat_sec_i_m == VAdd(Q_int, Q_solar)
    IN  VDiv(Q_gain_heat_sec_i_m, Q_loss_heat_sec_i_m)

(* Variant that appends to an array shared between calls instead of a fresh
   one. *)
heating_allowance_factor_shared(gamma) ==
    (IF prev.type = "done" /\ prev.obj.type = "NetHeatingNeeds"
     THEN prev.obj.f_allow_heat_sec_i_m ELSE <<>>)
    \o [m \in 1..Len(gamma) |-> IF Lt(gamma[m], Norm(25, 10)) THEN F(1) ELSE F(0)]

(* Variant with the gate closed only above 2.5. *)
heating_allowance_factor_le(gamma) ==
    [m \in 1..Len(gamma) |-> IF Le(gamma[m], Norm(25, 10)) THEN F(1) ELSE F(0)]

(* Variant that also closes the gate at negative ratios. *)
heating_allowance_factor_nonneg(gamma) ==
    [m \in 1..Len(gamma) |->
        IF Ge(gamma[m], F(0)) /\ Lt(gamma[m], Norm(25, 10)) THEN F(1) ELSE F(0)]

heating_allowance_factor(gamma) ==
    [m \in 1..Len(gamma) |-> IF Lt(gamma[m], Norm(25, 10)) THEN F(1) ELSE F(0)]

(* Variant that returns 1 at ratio = 1. *)
utilization_factor_heating_unit(C_sec_i, H_trans, H_vent, gamma) ==
    LET tau_heat_sec_i == PyDiv(C_sec_i, Add(H_trans, H_vent))
        a == Add(F(1), PyDiv(tau_heat_sec_i, F(54000)))
    IN  [m \in 1..Len(gamma) |->
            IF Eq(gamma[m], F(1))
            THEN F(1)
            ELSE NpDiv(Sub(F(1), Pow(gamma[m], a)),
                       Sub(F(1), Pow(gamma[m], Add(a, F(1)))))]

(* Variant with a tolerance band of 0.2 around ratio = 1. *)
utilization_factor_heating_band(C_sec_i, H_trans, H_vent, gamma) ==
    LET tau_heat_sec_i == PyDiv(C_sec_i, Add(H_trans, H_vent))
        a == Add(F(1), PyDiv(tau_heat_sec_i, F(54000)))
    IN  [m \in 1..Len(gamma) |->
            IF Lt(Norm(8, 10), gamma[m]) /\ Lt(gamma[m], Norm(12, 10))
            THEN PyDiv(a, Add(a, F(1)))
            ELSE NpDiv(Sub(F(1), Pow(gamma[m], a)),
                       Sub(F(1), Pow(gamma[m], Add(a, F(1)))))]

(* Variant with the two exponents exchanged. *)
utilization_factor_heating_inv(C_sec_i, H_trans, H_vent, gamma) ==
    LET tau_heat_sec_i == PyDiv(C_sec_i, Add(H_trans, H_vent))
        a == Add(F(1), PyDiv(tau_heat_sec_i, F(54000)))
    IN  [m \in 1..Len(gamma) |->
            IF Eq(gamma[m], F(1))
            THEN PyDiv(Add(a, F(1)), a)
            ELSE NpDiv(Sub(F(1), Pow(gamma[m], Add(a, F(1)))),
                       Sub(F(1), Pow(gamma[m], a)))]

utilization_factor_heating(C_sec_i, H_trans, H_vent, gamma) ==
    LET tau_heat_sec_i == PyDiv(C_sec_i, Add(H_trans, H_vent))
        a == Add(F(1), PyDiv(tau_heat_sec_i, F(54000)))
    IN  [m \in 1..Len(gamma) |->
            IF Eq(gamma[m], F(1))
            THEN PyDiv(a, Add(a, F(1)))
            ELSE NpDiv(Sub(F(1), Pow(gamma[m], a)),
                       Sub(F(1), Pow(gamma[m], Add(a, F(1)))))]

(* Variant that discounts the whole of the gains. *)
net_heating_demand_no_eta(Q_solar, Q_int, Q_trans, Q_vent, eta_util, f_allow) ==
    LET Q_loss_heat_sec_i_m == VAdd(Q_trans, Q_vent)
        Q_gain_heat_sec_i_m == VAdd(Q_int, Q_solar)
    IN  VMul(VSub(Q_loss_heat_sec_i_m, Q_gain_heat_sec_i_m), f_allow)

net_heating_demand(Q_solar, Q_int, Q_trans, Q_vent, eta_util, f_allow) ==
    LET Q_loss_heat_sec_i_m == VAdd(Q_trans, Q_vent)
        Q_gain_heat_sec_i_m == VAdd(Q_int, Q_solar)
        Q_heat_net_sec_i_m == VSub(Q_loss_heat_sec_i_m,
                                   VMul(eta_util, Q_gain_heat_sec_i_m))
    IN  VMul(Q_heat_net_sec_i_m, f_allow)

(* NetHeatingNeeds.__init__: the fields of the constructed object. *)
NetHeatingNeeds_init(c) ==
    LET gamma == heat_balance_ratio(c.Q_solar, c.Q_int, c.Q_trans, c.Q_vent)
        f_allow == heating_allowance_factor(gamma)
        eta == utilization_factor_heating(c.C_sec_i, c.H_trans, c.H_vent, gamma)
    IN  [type |-> "NetHeatingNeeds",
         gamma_heat_sec_i_m |-> gamma,
         f_allow_heat_sec_i_m |-> f_allow,
         eta_util_heat_sec_i_m |-> eta,
         Q_heat_net_sec_i_m |->
             net_heating_demand(c.Q_solar, c.Q_int, c.Q_trans, c.Q_vent,
                                eta, f_allow)]

NetHeatingNeeds ==
    /\ call.op = "NetHeatingNeeds" /\ obj.type = "pending"
    /\ IF PyDivRaises(Add(call.H_trans, call.H_vent))
       THEN /\ err' = "ZeroDivisionError"
            /\ obj' = [type |-> "none"]
       ELSE /\ err' = "none"
            /\ obj' = NetHeatingNeeds_init(call)
    /\ UNCHANGED <<call, prev>>

(* The function variant of the net heating needs. *)
fn_heat_balance_ratio_heating(Q_solar, Q_int, Q_trans, Q_vent) ==
    LET Q_loss_heat_sec_i_m == VAdd(Q_trans, Q_vent)
        Q_gain_heat_sec_i_m == VAdd(Q_int, Q_solar)
    IN  VDiv(Q_gain_heat_sec_i_m, Q_loss_heat_sec_i_m)

fn_utilization_factor_heating(C_sec_i, H_trans, H_vent, gamma) ==
    LET tau_heat_sec_i == PyDiv(C_sec_i, Add(H_trans, H_vent))
        a == Add(F(1), PyDiv(tau_heat_sec_i, F(54000)))
    IN  [m \in 1..Len(gamma) |->
            IF Eq(gamma[m], F(1))
            THEN PyDiv(a, Add(a, F(1)))
            ELSE NpDiv(Sub(F(1), Pow(gamma[m], a)),
                       Sub(F(1), Pow(gamma[m], Add(a, F(1)))))]

fn_allowance_factor_heating(gamma) ==
    [m \in 1..Len(gamma) |-> IF Lt(gamma[m], Norm(25, 10)) THEN F(1) ELSE F(0)]

(* Variant that applies the utilization factor to the losses. *)
fn_net_heating_demand_value_swapped(c) ==
    LET Q_loss_heat_sec_i_m == VAdd(c.Q_trans, c.Q_vent)
        Q_gain_heat_sec_i_m == VAdd(c.Q_int, c.Q_solar)
        gamma == fn_heat_balance_ratio_heating(c.Q_solar, c.Q_int,
                                               c.Q_trans, c.Q_vent)
        eta == fn_utilization_factor_heating(c.C_sec_i, c.H_trans, c.H_vent,
                                             gamma)
        Q_heat_net_sec_i_m ==
            VSub(VMul(eta, Q_loss_heat_sec_i_m), Q_gain_heat_sec_i_m)
        f_allow == fn_allowance_factor_heating(gamma)
    IN  VMul(Q_heat_net_sec_i_m, f_allow)

fn_net_heating_demand_value(c) ==
    LET Q_loss_heat_sec_i_m == VAdd(c.Q_trans, c.Q_vent)
        Q_gain_heat_sec_i_m == VAdd(c.Q_int, c.Q_solar)
        gamma == fn_heat_balance_ratio_heating(c.Q_solar, c.Q_int,
                                               c.Q_trans, c.Q_vent)
        eta == fn_utilization_factor_heating(c.C_sec_i, c.H_trans, c.H_vent,
                                             gamma)
        Q_heat_net_sec_i_m ==
            VSub(Q_loss_heat_sec_i_m, VMul(eta, Q_gain_heat_sec_i_m))
        f_allow == fn_allowance_factor_heating(gamma)
    IN  VMul(Q_heat_net_sec_i_m, f_allow)

fn_net_heating_demand ==
    /\ call.op = "net_heating_demand" /\ obj.type = "pending"
    /\ IF PyDivRaises(Add(call.H_trans, call.H_vent))
       THEN /\ err' = "ZeroDivisionError"
            /\ obj' = [type |-> "none"]
       ELSE /\ err' = "none"
            /\ obj' = [type |-> "ndarray",
                       value |-> fn_net_heating_demand_value(call)]
    /\ UNCHANGED <<call, prev>>

(* ------------------------ domestic hot water ------------------------- *)

(* Variant taking the smaller of the floor and the volume term. *)
net_dhw_demand_bath_min(V_sec_i, r_water_bath_i_net, N_bath, t_m) ==
    LET V_EPR == V_sec_i
        f_bath_i == PyDiv(F(1), N_bath)
    IN  SMul(Mul(Mul(r_water_bath_i_net, f_bath_i),
                 PyMin(F(64), Add(F(64), Mul(Norm(220, 1000),
                                             Sub(V_EPR, F(192)))))), t_m)

net_dhw_demand_bath(V_sec_i, r_water_bath_i_net, N_bath, t_m) ==
    LET V_EPR == V_sec_i
        f_bath_i == PyDiv(F(1), N_bath)
    IN  SMul(Mul(Mul(r_water_bath_i_net, f_bath_i),
                 PyMax(F(64), Add(F(64), Mul(Norm(220, 1000),
                                             Sub(V_EPR, F(192)))))), t_m)

(* Variant whose per-sink share ignores the number of sinks. *)
net_dhw_demand_sink_whole(V_sec_i, r_water_sink_i_net, N_sink, t_m) ==
    LET V_EPR == V_sec_i
        f_sink_i == F(1)
    IN  SMul(Mul(Mul(r_water_sink_i_net, f_sink_i),
                 PyMax(F(16), Add(F(16), Mul(Norm(55, 1000),
                                             Sub(V_EPR, F(192)))))), t_m)

net_dhw_demand_sink(V_sec_i, r_water_sink_i_net, N_sink, t_m) ==
    LET V_EPR == V_sec_i
        f_sink_i == PyDiv(F(1), N_sink)
    IN  SMul(Mul(Mul(r_water_sink_i_net, f_sink_i),
                 PyMax(F(16), Add(F(16), Mul(Norm(55, 1000),
                                             Sub(V_EPR, F(192)))))), t_m)

net_dhw_demand(N_bath, Q_water_bath_i_net_m, N_sink, Q_water_sink_i_net_m) ==
    VAdd(SMul(N_bath, Q_water_bath_i_net_m), SMul(N_sink, Q_water_sink_i_net_m))

NetDHWNeeds ==
    /\ call.op = "NetDHWNeeds" /\ obj.type = "pending"
    /\ LET N_bath == F(1)
           N_sink == F(1)
           r_water_bath_i_net == F(1)
           r_water_sink_i_net == F(1)
           Q_water_bath_i_net_m ==
               net_dhw_demand_bath(call.V_sec_i, r_water_bath_i_net, N_bath,
                                   call.t_m)
           Q_water_sink_i_net_m ==
               net_dhw_demand_sink(call.V_sec_i, r_water_sink_i_net, N_sink,
                                   call.t_m)
       IN  /\ err' = "none"
           /\ obj' = [type |-> "NetDHWNeeds",
                      Q_water_sec_i_net_m |->
                          net_dhw_demand(N_bath, Q_water_bath_i_net_m,
                                         N_sink, Q_water_sink_i_net_m)]
    /\ UNCHANGED <<call, prev>>

(* Variant in which only a zero number of baths raises. *)
fn_net_dhw_demand_raises_bath_only(N_bath, N_sink) == PyDivRaises(N_bath)

(* 1 / N_bath and 1 / N_sink on Python numbers. *)
fn_net_dhw_demand_raises(N_bath, N_sink) ==
    PyDivRaises(N_bath) \/ PyDivRaises(N_sink)

(* The function variant, with the numbers of baths and sinks as arguments
   and both reduction factors left at their default 1. *)
fn_net_dhw_demand ==
    /\ call.op = "net_dhw_demand" /\ obj.type = "pending"
    /\ IF fn_net_dhw_demand_raises(call.N_bath, call.N_sink)
       THEN /\ err' = "ZeroDivisionError"
            /\ obj' = [type |-> "none"]
       ELSE LET Q_water_bath_i_net_m ==
                    net_dhw_demand_bath(call.V_sec_i, F(1), call.N_bath, call.t_m)
                Q_water_sink_i_net_m ==
                    net_dhw_demand_sink(call.V_sec_i, F(1), call.N_sink, call.t_m)
            IN  /\ err' = "none"
                /\ obj' = [type |-> "ndarray",
                           value |-> net_dhw_demand(call.N_bath,
                                                    Q_water_bath_i_net_m,
                                                    call.N_sink,
                                                    Q_water_sink_i_net_m)]
    /\ UNCHANGED <<call, prev>>

(* --------------------------- overheating risk ------------------------ *)

overh_heat_balance_ratio(Q_solar, Q_int, Q_trans, Q_vent) ==
    LET Q_loss_overh_sec_i_m == VAdd(Q_trans, Q_vent)
        Q_gain_overh_sec_i_m == VAdd(Q_int, Q_solar)
    IN  VDiv(Q_gain_overh_sec_i_m, Q_loss_overh_sec_i_m)

ShorterLen(x, y) == IF Len(x) < Len(y) THEN Len(x) ELSE Len(y)

utilization_factor_overheating(C_sec_i, H_trans, H_vent_m, gamma) ==
    LET tau_overh_sec_i_m ==
            [m \in 1..Len(H_vent_m) |-> NpDiv(C_sec_i, Add(H_trans, H_vent_m[m]))]
        a_sec_i_m ==
            [m \in 1..Len(H_vent_m) |->
                Add(F(1), NpDiv(tau_overh_sec_i_m[m], F(54000)))]
    IN  [m \in 1..ShorterLen(a_sec_i_m, gamma) |->
            IF Eq(gamma[m], F(1))
            THEN NpDiv(a_sec_i_m[m], Add(a_sec_i_m[m], F(1)))
            ELSE NpDiv(Sub(F(1), Pow(gamma[m], a_sec_i_m[m])),
                       Sub(F(1), Pow(gamma[m], Add(a_sec_i_m[m], F(1)))))]

RECURSIVE NpSum(_)
NpSum(x) == IF Len(x) = 0 THEN F(0) ELSE Add(NpSum(SubSeq(x, 1, Len(x) - 1)), x[Len(x)])

(* Variant that uses the first month's ventilation coefficient throughout. *)
yearly_overheating_degree_first_month(Q_int, Q_solar, eta_util, H_trans, H_vent_m) ==
    LET f_cool_geo_sec_i_m == F(0)
        Q_gain_overh_sec_i_m == VAdd(Q_int, Q_solar)
        Q_excess_norm_sec_i_m ==
            [m \in 1..Len(eta_util) |->
                NpDiv(Mul(NpDiv(Mul(Mul(Sub(F(1), eta_util[m]),
                                        Sub(F(1), f_cool_geo_sec_i_m)),
                                    Q_gain_overh_sec_i_m[m]),
                                Add(H_trans, H_vent_m[1])),
                          F(1000)),
                      Norm(36, 10))]
    IN  NpSum(Q_excess_norm_sec_i_m)

yearly_overheating_degree(Q_int, Q_solar, eta_util, H_trans, H_vent_m) ==
    LET f_cool_geo_sec_i_m == F(0)
        Q_gain_overh_sec_i_m == VAdd(Q_int, Q_solar)
        Q_excess_norm_sec_i_m ==
            [m \in 1..Len(eta_util) |->
                NpDiv(Mul(NpDiv(Mul(Mul(Sub(F(1), eta_util[m]),
                                        Sub(F(1), f_cool_geo_sec_i_m)),
                                    Q_gain_overh_sec_i_m[m]),
                                Add(H_trans, H_vent_m[m])),
                          F(1000)),
                      Norm(36, 10))]
    IN  NpSum(Q_excess_norm_sec_i_m)

(* Variant without the lower clamp. *)
active_cooling_probability_no_floor(I_overh_sec_i) ==
    LET I_overh_thresh == F(1000)
        I_overh_max == F(6500)
    IN  PyMin(NpDiv(Sub(I_overh_sec_i, I_overh_thresh),
                    Sub(I_overh_max, I_overh_thresh)), F(1))

active_cooling_probability(I_overh_sec_i) ==
    LET I_overh_thresh == F(1000)
        I_overh_max == F(6500)
    IN  PyMax(F(0), PyMin(NpDiv(Sub(I_overh_sec_i, I_overh_thresh),
                                Sub(I_overh_max, I_overh_thresh)), F(1)))

(* Variant without the upper clamp. *)
time_fraction_over_25C_no_cap(I_overh_sec_i) ==
    LET I_overh_max == F(6500)
    IN  PyMax(F(0), NpDiv(Mul(Norm(5, 100), I_overh_sec_i), I_overh_max))

(* Variant clamped at 0.05 instead of 1. *)
time_fraction_over_25C_cap005(I_overh_sec_i) ==
    LET I_overh_max == F(6500)
    IN  PyMax(F(0), PyMin(NpDiv(Mul(Norm(5, 100), I_overh_sec_i), I_overh_max),
                          Norm(5, 100)))

time_fraction_over_25C(I_overh_sec_i) ==
    LET I_overh_max == F(6500)
    IN  PyMax(F(0), PyMin(NpDiv(Mul(Norm(5, 100), I_overh_sec_i), I_overh_max),
                          F(1)))

OverHeatingRisk ==
    /\ call.op = "OverHeatingRisk" /\ obj.type = "pending"
    /\ LET gamma == overh_heat_balance_ratio(call.Q_solar, call.Q_int,
                                             call.Q_trans, call.Q_vent)
           eta == utilization_factor_overheating(call.C_sec_i, call.H_trans,
                                                 call.H_vent_m, gamma)
           I_overh_sec_i == yearly_overheating_degree(call.Q_int, call.Q_solar,
                                eta, call.H_trans, call.H_vent_m)
       IN  /\ err' = "none"
           /\ obj' = [type |-> "OverHeatingRisk",
                      gamma_overh_sec_i_m |-> gamma,
                      eta_util_overh_sec_i_m |-> eta,
                      I_overh_sec_i |-> I_overh_sec_i,
                      p_cool_sec_i |-> active_cooling_probability(I_overh_sec_i),
                      f_cool_sec_i |-> time_fraction_over_25C(I_overh_sec_i)]
    /\ UNCHANGED <<call, prev>>

(* The function variant's scalar helpers, called on their own. *)
fn_active_cooling_probability ==
    /\ call.op = "active_cooling_probability" /\ obj.type = "pending"
    /\ err' = "none"
    /\ obj' = [type |-> "float",
               value |-> active_cooling_probability(call.I_overh_sec_i)]
    /\ UNCHANGED <<call, prev>>

fn_time_fraction_over_25C ==
    /\ call.op = "time_fraction_over_25C" /\ obj.type = "pending"
    /\ err' = "none"
    /\ obj' = [type |-> "float",
               value |-> time_fraction_over_25C(call.I_overh_sec_i)]
    /\ UNCHANGED <<call, prev>>

(* The function variant of the overheating risk. *)
fn_heat_balance_ratio_overheating(Q_solar, Q_int, Q_trans, Q_vent) ==
    LET Q_loss_overh_sec_i_m == VAdd(Q_trans, Q_vent)
        Q_gain_overh_sec_i_m == VAdd(Q_int, Q_solar)
    IN  VDiv(Q_gain_overh_sec_i_m, Q_loss_overh_sec_i_m)

(* Variant that repeats the ventilation series over the length of the ratio
   series instead of stopping at the shorter one. *)
fn_utilization_factor_overheating_cycled(C_sec_i, H_trans, H_vent_m, gamma) ==
    LET a_sec_i_m ==
            [m \in 1..Len(gamma) |->
                Add(F(1), NpDiv(NpDiv(C_sec_i,
                                      Add(H_trans,
                                          H_vent_m[((m - 1) % Len(H_vent_m)) + 1])),
                                F(54000)))]
    IN  [m \in 1..Len(gamma) |->
            IF Eq(gamma[m], F(1))
            THEN NpDiv(a_sec_i_m[m], Add(a_sec_i_m[m], F(1)))
            ELSE NpDiv(Sub(F(1), Pow(gamma[m], a_sec_i_m[m])),
                       Sub(F(1), Pow(gamma[m], Add(a_sec_i_m[m], F(1)))))]

fn_utilization_factor_overheating(C_sec_i, H_trans, H_vent_m, gamma) ==
    LET tau_overh_sec_i_m ==
            [m \in 1..Len(H_vent_m) |-> NpDiv(C_sec_i, Add(H_trans, H_vent_m[m]))]
        a_sec_i_m ==
            [m \in 1..Len(H_vent_m) |->
                Add(F(1), NpDiv(tau_overh_sec_i_m[m], F(54000)))]
    IN  [m \in 1..ShorterLen(a_sec_i_m, gamma) |->
            IF Eq(gamma[m], F(1))
            THEN NpDiv(a_sec_i_m[m], Add(a_sec_i_m[m], F(1)))
            ELSE NpDiv(Sub(F(1), Pow(gamma[m], a_sec_i_m[m])),
                       Sub(F(1), Pow(gamma[m], Add(a_sec_i_m[m], F(1)))))]

(* The triple <<I_overh_sec_i, p_cool_sec_i, f_cool_sec_i>> returned. *)
fn_yearly_overheating_degree_value(c) ==
    LET gamma == fn_heat_balance_ratio_overheating(c.Q_solar, c.Q_int,
                                                   c.Q_trans, c.Q_vent)
        eta == fn_utilization_factor_overheating(c.C_sec_i, c.H_trans,
                                                 c.H_vent_m, gamma)
        f_cool_geo_sec_i_m == F(0)
        Q_gain_overh_sec_i_m == VAdd(c.Q_int, c.Q_solar)
        Q_excess_norm_sec_i_m ==
            [m \in 1..Len(eta) |->
                NpDiv(Mul(NpDiv(Mul(Mul(Sub(F(1), eta[m]),
                                        Sub(F(1), f_cool_geo_sec_i_m)),
                                    Q_gain_overh_sec_i_m[m]),
                                Add(c.H_trans, c.H_vent_m[m])),
                          F(1000)),
                      Norm(36, 10))]
        I_overh_sec_i == NpSum(Q_excess_norm_sec_i_m)
    IN  <<I_overh_sec_i, active_cooling_probability(I_overh_sec_i),
          time_fraction_over_25C(I_overh_sec_i)>>

fn_yearly_overheating_degree ==
    /\ call.op = "yearly_overheating_degree" /\ obj.type = "pending"
    /\ err' = "none"
    /\ obj' = [type |-> "tuple",
               value |-> fn_yearly_overheating_degree_value(call)]
    /\ UNCHANGED <<call, prev>>

(* --------------------------- net cooling needs ----------------------- *)

(* Variant with the ratio taken the same way round as for heating. *)
cool_heat_balance_ratio_gain_over_loss(Q_solar, Q_int, Q_trans, Q_vent) ==
    LET Q_loss_cool_sec_i_m == VAdd(Q_trans, Q_vent)
        Q_gain_cool_sec_i_m == VAdd(Q_int, Q_solar)
    IN  VDiv(Q_gain_cool_sec_i_m, Q_loss_cool_sec_i_m)

cool_heat_balance_ratio(Q_solar, Q_int, Q_trans, Q_vent) ==
    LET Q_loss_cool_sec_i_m == VAdd(Q_trans, Q_vent)
        Q_gain_cool_sec_i_m == VAdd(Q_int, Q_solar)
    IN  VDiv(Q_loss_cool_sec_i_m, Q_gain_cool_sec_i_m)

cooling_allowance_factor(lambda) ==
    [m \in 1..Len(lambda) |-> IF Lt(lambda[m], Norm(25, 10)) THEN F(1) ELSE F(0)]

utilization_factor_cooling(C_sec_i, H_trans, H_vent_m, lambda) ==
    LET tau_cool_sec_i_m ==
            [m \in 1..Len(H_vent_m) |-> NpDiv(C_sec_i, Add(H_trans, H_vent_m[m]))]
        a_sec_i_m ==
            [m \in 1..Len(H_vent_m) |->
                Add(F(1), NpDiv(tau_cool_sec_i_m[m], F(54000)))]
    IN  [m \in 1..ShorterLen(a_sec_i_m, lambda) |->
            IF Eq(lambda[m], F(1))
            THEN NpDiv(a_sec_i_m[m], Add(a_sec_i_m[m], F(1)))
            ELSE NpDiv(Sub(F(1), Pow(lambda[m], a_sec_i_m[m])),
                       Sub(F(1), Pow(lambda[m], Add(a_sec_i_m[m], F(1)))))]

net_cooling_demand(Q_solar, Q_int, Q_trans, Q_vent, eta_util, f_allow, p_cool) ==
    LET Q_loss_cool_sec_i_m == VAdd(Q_trans, Q_vent)
        Q_gain_cool_sec_i_m == VAdd(Q_int, Q_solar)
        Q_cool_net_princ_sec_i_m ==
            VMul(VSub(Q_gain_cool_sec_i_m, VMul(eta_util, Q_loss_cool_sec_i_m)),
                 f_allow)
        f_cool_geo_sec_i_m == F(0)
    IN  SMul(Mul(p_cool, Sub(F(1), f_cool_geo_sec_i_m)), Q_cool_net_princ_sec_i_m)

NetCoolingNeeds ==
    /\ call.op = "NetCoolingNeeds" /\ obj.type = "pending"
    /\ LET lambda == cool_heat_balance_ratio(call.Q_solar, call.Q_int,
                                             call.Q_trans, call.Q_vent)
           f_allow == cooling_allowance_factor(lambda)
           eta == utilization_factor_cooling(call.C_sec_i, call.H_trans,
                                             call.H_vent_m, lambda)
       IN  /\ err' = "none"
           /\ obj' = [type |-> "NetCoolingNeeds",
                      lambda_cool_sec_i_m |-> lambda,
                      f_allow_cool_sec_i_m |-> f_allow,
                      eta_util_cool_sec_i_m |-> eta,
                      Q_cool_net_sec_i_m |->
                          net_cooling_demand(call.Q_solar, call.Q_int,
                                             call.Q_trans, call.Q_vent,
                                             eta, f_allow, call.p_cool_sec_i)]
    /\ UNCHANGED <<call, prev>>

(* The function variant of the cooling utilization factor. *)
fn_utilization_factor_cooling(C_sec_i, H_trans_cool_sec_i, H_vent_cool_sec_i_m, lambda_cool_sec_i_m) ==
    LET tau_cool_sec_i_m ==
            [m \in 1..Len(H_vent_cool_sec_i_m) |->
                NpDiv(C_sec_i, Add(H_trans_cool_sec_i, H_vent_cool_sec_i_m[m]))]
        a_sec_i_m ==
            [m \in 1..Len(H_vent_cool_sec_i_m) |->
                Add(F(1), NpDiv(tau_cool_sec_i_m[m], F(54000)))]
    IN  [m \in 1..ShorterLen(a_sec_i_m, lambda_cool_sec_i_m) |->
            IF Eq(lambda_cool_sec_i_m[m], F(1))
            THEN NpDiv(a_sec_i_m[m], Add(a_sec_i_m[m], F(1)))
            ELSE NpDiv(Sub(F(1), Pow(lambda_cool_sec_i_m[m], a_sec_i_m[m])),
                       Sub(F(1), Pow(lambda_cool_sec_i_m[m],
                                     Add(a_sec_i_m[m], F(1)))))]

(* Direct calls of the utilization factor functions, whose two series need
   not have the same length. *)
UtilizationFactorOverheating ==
    /\ call.op = "utilization_factor_overheating" /\ obj.type = "pending"
    /\ err' = "none"
    /\ obj' = [type |-> "ndarray",
               value |-> fn_utilization_factor_overheating(
                             call.C_sec_i, call.H_trans, call.H_vent_m,
                             call.ratio)]
    /\ UNCHANGED <<call, prev>>

UtilizationFactorCooling ==
    /\ call.op = "utilization_factor_cooling" /\ obj.type = "pending"
    /\ err' = "none"
    /\ obj' = [type |-> "ndarray",
               value |-> fn_utilization_factor_cooling(
                             call.C_sec_i, call.H_trans, call.H_vent_m,
                             call.ratio)]
    /\ UNCHANGED <<call, prev>>

(* ---------------------------- the program ---------------------------- *)

(* The calls a client makes: the operation and its arguments. *)
InternalGainsCalls ==
    [op : {"InternalGains"}, V_sec_i : Volumes, t_m : Series(TmVals)]

NetHeatingNeedsCalls ==
    {[op |-> "NetHeatingNeeds", Q_solar |-> qs, Q_int |-> qi, Q_trans |-> qt,
      Q_vent |-> qv, C_sec_i |-> s[1], H_trans |-> s[2], H_vent |-> s[3]] :
        qs \in Series(QSolarVals), qi \in Series(QIntVals),
        qt \in Series(QTransVals), qv \in Series(QVentVals), s \in HeatSectors}

OverHeatingRiskCalls ==
    {[op |-> "OverHeatingRisk", Q_solar |-> qs, Q_int |-> qi, Q_trans |-> qt,
      Q_vent |-> qv, C_sec_i |-> s[1], H_trans |-> s[2], H_vent_m |-> hv] :
        qs \in Series(OverhQSolarVals), qi \in Series(OverhQIntVals),
        qt \in Series(OverhQTransVals), qv \in Series({F(0)}),
        hv \in HVentSeries, s \in MonthlySectors}

NetCoolingNeedsCalls ==
    {[op |-> "NetCoolingNeeds", Q_solar |-> qs, Q_int |-> qi, Q_trans |-> qt,
      Q_vent |-> qv, C_sec_i |-> s[1], H_trans |-> s[2], H_vent_m |-> hv,
      p_cool_sec_i |-> p] :
        qs \in Series(CoolQSolarVals), qi \in Series(CoolQIntVals),
        qt \in Series(CoolQTransVals), qv \in Series(CoolQVentVals),
        hv \in HVentSeries, s \in MonthlySectors, p \in PCoolVals}

TransmissionLossesCalls ==
    [op : {"TransmissionLosses"}, H_trans_heat_sec_i : HTransVals,
     H_trans_overh_sec_i : HTransVals, H_trans_cool_sec_i : HTransVals,
     T_e_m : Series(TeVals), t_m : Series(LossTmVals)]

VentilationLossesCalls ==
    [op : {"VentilationLosses"}, H_vent_heat_sec_i : HVentHeatVals,
     H_vent_overh_sec_i_m : HVentLossSeries, H_vent_cool_sec_i_m : HVentLossSeries,
     T_e_m : Series(TeVals), t_m : Series(LossTmVals)]

NetDHWNeedsCalls ==
    [op : {"NetDHWNeeds"}, V_sec_i : Volumes, t_m : Series(TmVals)]

DhwFunctionCalls ==
    [op : {"net_dhw_demand"}, V_sec_i : Volumes, t_m : Series(TmVals),
     N_bath : NPointVals, N_sink : NPointVals]

HeatingFunctionCalls ==
    {[op |-> "net_heating_demand", Q_solar |-> qs, Q_int |-> qi, Q_trans |-> qt,
      Q_vent |-> qv, C_sec_i |-> s[1], H_trans |-> s[2], H_vent |-> s[3]] :
        qs \in Series(QSolarVals), qi \in Series(QIntVals),
        qt \in Series(QTransVals), qv \in Series({F(0)}), s \in HeatSectors}

OverheatingFunctionCalls ==
    {[op |-> "yearly_overheating_degree", Q_solar |-> qs, Q_int |-> qi,
      Q_trans |-> qt, Q_vent |-> qv, C_sec_i |-> s[1], H_trans |-> s[2],
      H_vent_m |-> hv] :
        qs \in Series(OverhQSolarVals), qi \in Series(OverhQIntVals),
        qt \in Series(OverhQTransVals), qv \in Series({F(0)}),
        hv \in HVentSeries, s \in MonthlySectors}

TransmissionFunctionCalls ==
    [op : {"transmission_losses_heating", "transmission_losses_overheating",
           "transmission_losses_cooling"},
     H_trans_sec_i : HTransVals, T_e_m : Series(TeVals),
     t_m : Series(LossTmVals)]

(* Series of every length from 1 to NMonths. *)
SeriesUpTo(S) == UNION {[1..n -> S] : n \in 1..NMonths}

RatioVals == {F(0), Norm(1, 2), F(1), F(2)}

UtilizationFactorCalls ==
    [op : {"utilization_factor_overheating", "utilization_factor_cooling"},
     C_sec_i : {F(216000)}, H_trans : {F(1)},
     H_vent_m : SeriesUpTo({F(1), F(3)}), ratio : SeriesUpTo(RatioVals)]

ScalarCalls ==
    [op : {"active_cooling_probability", "time_fraction_over_25C"},
     I_overh_sec_i : IOverhVals]

Calls == InternalGainsCalls \cup NetHeatingNeedsCalls \cup OverHeatingRiskCalls
         \cup NetCoolingNeedsCalls \cup ScalarCalls
         \cup TransmissionLossesCalls \cup VentilationLossesCalls
         \cup NetDHWNeedsCalls \cup DhwFunctionCalls
         \cup HeatingFunctionCalls \cup OverheatingFunctionCalls
         \cup TransmissionFunctionCalls \cup UtilizationFactorCalls

Init ==
    /\ call \in Calls
    /\ obj = [type |-> "pending"]
    /\ err = "none"
    /\ prev = [type |-> "none"]

(* The client evaluates the same component once more on the same inputs;
   the outcome of the first evaluation is kept for comparison. *)
CallAgain ==
    /\ obj.type # "pending"
    /\ prev.type = "none"
    /\ prev' = [type |-> "done", obj |-> obj, err |-> err]
    /\ obj' = [type |-> "pending"]
    /\ err' = "none"
    /\ UNCHANGED call

Next ==
    \/ InternalGains
    \/ TransmissionLosses
    \/ VentilationLosses
    \/ NetHeatingNeeds
    \/ NetDHWNeeds
    \/ fn_net_dhw_demand
    \/ OverHeatingRisk
    \/ fn_active_cooling_probability
    \/ fn_time_fraction_over_25C
    \/ NetCoolingNeeds
    \/ fn_net_heating_demand
    \/ fn_yearly_overheating_degree
    \/ fn_transmission_losses_heating
    \/ fn_transmission_losses_overheating
    \/ fn_transmission_losses_cooling
    \/ UtilizationFactorOverheating
    \/ UtilizationFactorCooling
    \/ CallAgain

Spec == Init /\ [][Next]_vars

(* ============================ properties ============================= *)

Done == obj.type # "pending"

Loss(c, m) == Add(c.Q_trans[m], c.Q_vent[m])

Gain(c, m) == Add(c.Q_int[m], c.Q_solar[m])

(* r < 2.5, on the representation: 2n < 5d for n/d; -inf is below, +inf and
   NaN are not. *)
Below25(r) == IF r[2] > 0 THEN 2 * r[1] < 5 * r[2] ELSE r = NInf

(* a = 1 + (C / H) / 54000 *)
AParam(C, H) == Add(F(1), NpDiv(NpDiv(C, H), F(54000)))

UtilFormula(r, a) ==
    IF r = F(1)
    THEN NpDiv(a, Add(a, F(1)))
    ELSE NpDiv(Sub(F(1), Pow(r, a)), Sub(F(1), Pow(r, Add(a, F(1)))))

InUnitInterval(x) == Ge(x, F(0)) /\ Le(x, F(1))

(* C1: for every volume V > 0 and every month m, internal_gains returns
   (1.41*V + 78) * t_m[m] when V <= 192 (192 included) and
   (0.67*V + 220) * t_m[m] when V > 192; the self-division V_sec_i/V_EPR does
   not change the result, and V = 10 gives 92.1 * t_m[m]. *)
C1_InternalGainsBranches ==
    (obj.type = "InternalGains" /\ Gt(call.V_sec_i, F(0))) =>
        LET V == call.V_sec_i
            Q == obj.Q_int_heat_sec_i_m
        IN  /\ Len(Q) = Len(call.t_m)
            /\ \A m \in 1..Len(Q) :
                /\ Le(V, F(192)) =>
                     Q[m] = Mul(Add(Mul(Norm(141, 100), V), F(78)), call.t_m[m])
                /\ Gt(V, F(192)) =>
                     Q[m] = Mul(Add(Mul(Norm(67, 100), V), F(220)), call.t_m[m])
                /\ V = F(10) => Q[m] = Mul(Norm(921, 10), call.t_m[m])

(* The volume is exactly 192 and the low-volume branch, 348.72 * t_m, was
   returned. *)
C1_Witness ==
    /\ obj.type = "InternalGains"
    /\ call.V_sec_i = F(192)
    /\ obj.Q_int_heat_sec_i_m[1] = Mul(Norm(34872, 100), call.t_m[1])

(* C2: with a = 1 + (C / (H_trans + H_vent)) / 54000, the utilization factor
   of month m is a/(a+1) when ratio[m] is exactly 1 and
   (1 - ratio^a) / (1 - ratio^(a+1)) for every other ratio value: the branch
   is chosen by exact equality (heating, overheating and cooling). *)
C2_UtilizationFactorBranches ==
    /\ obj.type = "NetHeatingNeeds" =>
         \A m \in 1..Len(obj.eta_util_heat_sec_i_m) :
            obj.eta_util_heat_sec_i_m[m] =
                UtilFormula(obj.gamma_heat_sec_i_m[m],
                            AParam(call.C_sec_i, Add(call.H_trans, call.H_vent)))
    /\ obj.type = "OverHeatingRisk" =>
         \A m \in 1..Len(obj.eta_util_overh_sec_i_m) :
            obj.eta_util_overh_sec_i_m[m] =
                UtilFormula(obj.gamma_overh_sec_i_m[m],
                            AParam(call.C_sec_i,
                                   Add(call.H_trans, call.H_vent_m[m])))
    /\ obj.type = "NetCoolingNeeds" =>
         \A m \in 1..Len(obj.eta_util_cool_sec_i_m) :
            obj.eta_util_cool_sec_i_m[m] =
                UtilFormula(obj.lambda_cool_sec_i_m[m],
                            AParam(call.C_sec_i,
                                   Add(call.H_trans, call.H_vent_m[m])))

(* One month has ratio exactly 1 and eta = a/(a+1) = 2/3, another has ratio
   11/10 and the general formula's 210/331 (a = 2). *)
C2_Witness ==
    /\ obj.type = "NetHeatingNeeds"
    /\ obj.gamma_heat_sec_i_m[1] = F(1)
    /\ obj.eta_util_heat_sec_i_m[1] = Norm(2, 3)
    /\ obj.gamma_heat_sec_i_m[2] = Norm(11, 10)
    /\ obj.eta_util_heat_sec_i_m[2] = Norm(210, 331)

(* C3: the allowance factor is a step function of the month's ratio: every
   element is 0 or 1, it is 1 exactly when ratio[m] < 2.5 and 0 when
   ratio[m] >= 2.5 (2.5 itself gives 0); heating applies the rule to gamma and
   cooling applies the same rule to lambda. *)
C3_AllowanceFactorStep ==
    /\ obj.type = "NetHeatingNeeds" =>
         /\ Len(obj.f_allow_heat_sec_i_m) = Len(obj.gamma_heat_sec_i_m)
         /\ \A m \in 1..Len(obj.gamma_heat_sec_i_m) :
              /\ obj.f_allow_heat_sec_i_m[m] \in {F(0), F(1)}
              /\ obj.f_allow_heat_sec_i_m[m] = F(1)
                    <=> Below25(obj.gamma_heat_sec_i_m[m])
              /\ Ge(obj.gamma_heat_sec_i_m[m], Norm(5, 2))
                    => obj.f_allow_heat_sec_i_m[m] = F(0)
    /\ obj.type = "NetCoolingNeeds" =>
         /\ Len(obj.f_allow_cool_sec_i_m) = Len(obj.lambda_cool_sec_i_m)
         /\ \A m \in 1..Len(obj.lambda_cool_sec_i_m) :
              /\ obj.f_allow_cool_sec_i_m[m] \in {F(0), F(1)}
              /\ obj.f_allow_cool_sec_i_m[m] = F(1)
                    <=> Below25(obj.lambda_cool_sec_i_m[m])
              /\ Ge(obj.lambda_cool_sec_i_m[m], Norm(5, 2))
                    => obj.f_allow_cool_sec_i_m[m] = F(0)

(* One month has ratio exactly 2.5 and factor 0, another has ratio 1.25 and
   factor 1. *)
C3_Witness ==
    /\ obj.type = "NetHeatingNeeds"
    /\ obj.gamma_heat_sec_i_m[1] = Norm(5, 2)
    /\ obj.f_allow_heat_sec_i_m[1] = F(0)
    /\ obj.gamma_heat_sec_i_m[2] = Norm(5, 4)
    /\ obj.f_allow_heat_sec_i_m[2] = F(1)

(* C4: net heating demand of month m equals
   (Q_trans + Q_vent - eta * (Q_int + Q_solar)) * f_allow, with no floor or
   clamp; consequently it is exactly 0 in every month whose heating ratio is
   >= 2.5. *)
C4_NetHeatingDemandGated ==
    obj.type = "NetHeatingNeeds" =>
        \A m \in 1..Len(obj.Q_heat_net_sec_i_m) :
            /\ obj.Q_heat_net_sec_i_m[m] =
                 Mul(Sub(Loss(call, m),
                         Mul(obj.eta_util_heat_sec_i_m[m], Gain(call, m))),
                     obj.f_allow_heat_sec_i_m[m])
            /\ Ge(obj.gamma_heat_sec_i_m[m], Norm(5, 2))
                 => obj.Q_heat_net_sec_i_m[m] = F(0)

(* What the code does satisfy: the formula in every month, and a result of 0
   in every month whose ratio is a finite number >= 2.5. *)
NetHeatingDemandGatedWhenFinite ==
    obj.type = "NetHeatingNeeds" =>
        \A m \in 1..Len(obj.Q_heat_net_sec_i_m) :
            /\ obj.Q_heat_net_sec_i_m[m] =
                 Mul(Sub(Loss(call, m),
                         Mul(obj.eta_util_heat_sec_i_m[m], Gain(call, m))),
                     obj.f_allow_heat_sec_i_m[m])
            /\ (IsFinite(obj.gamma_heat_sec_i_m[m])
                /\ Ge(obj.gamma_heat_sec_i_m[m], Norm(5, 2)))
                 => obj.Q_heat_net_sec_i_m[m] = F(0)

(* C5: computing a heat-balance ratio fails with a division-by-zero error
   whenever the denominator of some month is exactly zero (losses for heating
   and overheating, gains for cooling): no value is substituted and no result
   series is returned. *)
C5_ZeroDenominatorRaises ==
    /\ (/\ call.op \in {"NetHeatingNeeds", "OverHeatingRisk"}
        /\ Done
        /\ \E m \in 1..Len(call.Q_trans) : Loss(call, m) = F(0))
         => (err = "ZeroDivisionError" /\ obj.type = "none")
    /\ (/\ call.op = "NetCoolingNeeds"
        /\ Done
        /\ \E m \in 1..Len(call.Q_int) : Gain(call, m) = F(0))
         => (err = "ZeroDivisionError" /\ obj.type = "none")

(* C6: net heating demand is non-negative in the well-formed case: for every
   month with losses > 0, gains >= 0, C > 0 and H_trans + H_vent > 0,
   Q_heat_net[m] >= 0. *)
C6_NetHeatingDemandNonNegative ==
    (/\ obj.type = "NetHeatingNeeds"
     /\ Gt(call.C_sec_i, F(0))
     /\ Gt(Add(call.H_trans, call.H_vent), F(0))) =>
        \A m \in 1..Len(obj.Q_heat_net_sec_i_m) :
            (Gt(Loss(call, m), F(0)) /\ Ge(Gain(call, m), F(0)))
                => Ge(obj.Q_heat_net_sec_i_m[m], F(0))

(* Gains exceed losses (11 against 8), the gate is open and the demand is
   still positive. *)
C6_Witness ==
    /\ obj.type = "NetHeatingNeeds"
    /\ Loss(call, 1) = F(8)
    /\ Gain(call, 1) = F(11)
    /\ obj.f_allow_heat_sec_i_m[1] = F(1)
    /\ Gt(obj.Q_heat_net_sec_i_m[1], F(0))

(* C7, as stated: there are inputs meeting the preconditions (losses > 0,
   gains >= 0, C > 0, H > 0) with a month where gains exceed losses
   (1 < ratio < 2.5, f_allow = 1) and Q_heat_net[m] < 0. *)
C7_NegativeDemandPossible ==
    obj.type = "NetHeatingNeeds" =>
    \E c \in NetHeatingNeedsCalls :
        /\ Gt(c.C_sec_i, F(0))
        /\ Gt(Add(c.H_trans, c.H_vent), F(0))
        /\ \A m \in Months : Gt(Loss(c, m), F(0)) /\ Ge(Gain(c, m), F(0))
        /\ LET o == NetHeatingNeeds_init(c)
           IN  \E m \in Months :
                /\ Gt(o.gamma_heat_sec_i_m[m], F(1))
                /\ Lt(o.gamma_heat_sec_i_m[m], Norm(5, 2))
                /\ o.f_allow_heat_sec_i_m[m] = F(1)
                /\ Lt(o.Q_heat_net_sec_i_m[m], F(0))

(* C7, amended: in a month where gains exceed losses with the gate open
   (losses > 0, 1 < ratio < 2.5, C > 0, H > 0) the allowance factor is 1 and
   the net heating demand is strictly positive, never negative. *)
C7_OpenGateDemandPositive ==
    (/\ obj.type = "NetHeatingNeeds"
     /\ Gt(call.C_sec_i, F(0))
     /\ Gt(Add(call.H_trans, call.H_vent), F(0))) =>
        \A m \in 1..Len(obj.Q_heat_net_sec_i_m) :
            (/\ Gt(Loss(call, m), F(0))
             /\ Gt(obj.gamma_heat_sec_i_m[m], F(1))
             /\ Lt(obj.gamma_heat_sec_i_m[m], Norm(5, 2)))
                => /\ obj.f_allow_heat_sec_i_m[m] = F(1)
                   /\ Gt(obj.Q_heat_net_sec_i_m[m], F(0))

(* Every month meets the preconditions, month 2 has ratio 5/4 and a = 3, and
   its demand is 8 - (122/369) * 10 > 0. *)
C7_Witness ==
    /\ obj.type = "NetHeatingNeeds"
    /\ call.C_sec_i = F(216000)
    /\ \A m \in 1..Len(call.Q_trans) : Gt(Loss(call, m), F(0))
    /\ obj.gamma_heat_sec_i_m[2] = Norm(5, 4)
    /\ obj.f_allow_heat_sec_i_m[2] = F(1)
    /\ Gt(obj.Q_heat_net_sec_i_m[2], F(0))

(* C8: the utilization factor lies in [0, 1]: for every month with
   ratio >= 0 and a >= 1 (C > 0, H_trans + H_vent > 0), 0 <= eta[m] <= 1, for
   the heating, overheating and cooling variants alike. *)
C8_UtilizationInUnitInterval ==
    /\ (obj.type = "NetHeatingNeeds" /\ Gt(call.C_sec_i, F(0))
        /\ Gt(Add(call.H_trans, call.H_vent), F(0))) =>
         \A m \in 1..Len(obj.eta_util_heat_sec_i_m) :
            Ge(obj.gamma_heat_sec_i_m[m], F(0))
                => InUnitInterval(obj.eta_util_heat_sec_i_m[m])
    /\ (obj.type = "OverHeatingRisk" /\ Gt(call.C_sec_i, F(0))) =>
         \A m \in 1..Len(obj.eta_util_overh_sec_i_m) :
            (Gt(Add(call.H_trans, call.H_vent_m[m]), F(0))
             /\ Ge(obj.gamma_overh_sec_i_m[m], F(0)))
                => InUnitInterval(obj.eta_util_overh_sec_i_m[m])
    /\ (obj.type = "NetCoolingNeeds" /\ Gt(call.C_sec_i, F(0))) =>
         \A m \in 1..Len(obj.eta_util_cool_sec_i_m) :
            (Gt(Add(call.H_trans, call.H_vent_m[m]), F(0))
             /\ Ge(obj.lambda_cool_sec_i_m[m], F(0)))
                => InUnitInterval(obj.eta_util_cool_sec_i_m[m])

(* What the code does satisfy: the bound in every month whose ratio is a
   finite number >= 0. *)
UtilizationInUnitIntervalWhenFinite ==
    /\ (obj.type = "NetHeatingNeeds" /\ Gt(call.C_sec_i, F(0))
        /\ Gt(Add(call.H_trans, call.H_vent), F(0))) =>
         \A m \in 1..Len(obj.eta_util_heat_sec_i_m) :
            (IsFinite(obj.gamma_heat_sec_i_m[m])
             /\ Ge(obj.gamma_heat_sec_i_m[m], F(0)))
                => InUnitInterval(obj.eta_util_heat_sec_i_m[m])
    /\ (obj.type = "OverHeatingRisk" /\ Gt(call.C_sec_i, F(0))) =>
         \A m \in 1..Len(obj.eta_util_overh_sec_i_m) :
            (IsFinite(obj.gamma_overh_sec_i_m[m])
             /\ Ge(obj.gamma_overh_sec_i_m[m], F(0)))
                => InUnitInterval(obj.eta_util_overh_sec_i_m[m])
    /\ (obj.type = "NetCoolingNeeds" /\ Gt(call.C_sec_i, F(0))) =>
         \A m \in 1..Len(obj.eta_util_cool_sec_i_m) :
            (IsFinite(obj.lambda_cool_sec_i_m[m])
             /\ Ge(obj.lambda_cool_sec_i_m[m], F(0)))
                => InUnitInterval(obj.eta_util_cool_sec_i_m[m])

(* The yearly overheating degree and the active-cooling probability of the
   completed call, when it produced them. *)
HasPCool ==
    \/ obj.type = "OverHeatingRisk"
    \/ (obj.type = "float" /\ call.op = "active_cooling_probability")

IOverhOf == IF obj.type = "OverHeatingRisk" THEN obj.I_overh_sec_i
            ELSE call.I_overh_sec_i

PCoolOf == IF obj.type = "OverHeatingRisk" THEN obj.p_cool_sec_i ELSE obj.value

(* C9: the active-cooling probability is 0 for every I_overh <= 1000, 1 for
   every I_overh >= 6500, and (I_overh - 1000) / 5500 in between. *)
C9_ActiveCoolingProbability ==
    HasPCool =>
        /\ Le(IOverhOf, F(1000)) => PCoolOf = F(0)
        /\ Ge(IOverhOf, F(6500)) => PCoolOf = F(1)
        /\ (Lt(F(1000), IOverhOf) /\ Lt(IOverhOf, F(6500)))
             => PCoolOf = Norm(IOverhOf[1] - 1000 * IOverhOf[2],
                               5500 * IOverhOf[2])

(* I_overh = 3750 lies between the thresholds and gives 1/2. *)
C9_Witness ==
    /\ obj.type = "float"
    /\ call.op = "active_cooling_probability"
    /\ call.I_overh_sec_i = F(3750)
    /\ obj.value = Norm(1, 2)

HasFCool ==
    \/ obj.type = "OverHeatingRisk"
    \/ (obj.type = "float" /\ call.op = "time_fraction_over_25C")

FCoolOf == IF obj.type = "OverHeatingRisk" THEN obj.f_cool_sec_i ELSE obj.value

(* C10, as stated: for every I_overh >= 6500 the over-25C time fraction is
   0.05 (not 1), and for every I_overh <= 0 it is 0. *)
C10_TimeFractionCappedAt005 ==
    HasFCool =>
        /\ Ge(IOverhOf, F(6500)) => FCoolOf = Norm(5, 100)
        /\ Le(IOverhOf, F(0)) => FCoolOf = F(0)

(* C10, amended: at I_overh = 6500 the time fraction is exactly 0.05; for
   I_overh >= 6500 it is min(0.05 * I_overh / 6500, 1), at least 0.05 and 1
   from I_overh = 130000 on; for every I_overh <= 0 it is 0. *)
C10_TimeFractionAboveMax ==
    HasFCool =>
        /\ IOverhOf = F(6500) => FCoolOf = Norm(5, 100)
        /\ Ge(IOverhOf, F(6500)) =>
             /\ Ge(FCoolOf, Norm(5, 100))
             /\ Le(FCoolOf, F(1))
             /\ Ge(IOverhOf, F(130000)) => FCoolOf = F(1)
             /\ Lt(IOverhOf, F(130000)) =>
                    FCoolOf = Norm(IOverhOf[1], 130000 * IOverhOf[2])
        /\ Le(IOverhOf, F(0)) => FCoolOf = F(0)

(* I_overh = 7000 is above the maximum and gives 7/130, more than 0.05. *)
C10_Witness ==
    /\ obj.type = "float"
    /\ call.op = "time_fraction_over_25C"
    /\ call.I_overh_sec_i = F(7000)
    /\ obj.value = Norm(7, 130)

(* C11: for every value of I_overh (negative, zero or arbitrarily large) both
   derived scalars are clamped: 0 <= p_cool <= 1 and 0 <= f_cool <= 1. *)
C11_DerivedScalarsClamped ==
    /\ HasPCool => InUnitInterval(PCoolOf)
    /\ HasFCool => InUnitInterval(FCoolOf)

(* I_overh = 200000 would give 0.05 * 200000 / 6500 > 1 and is clamped to 1. *)
C11_Witness ==
    /\ obj.type = "float"
    /\ call.op = "time_fraction_over_25C"
    /\ call.I_overh_sec_i = F(200000)
    /\ obj.value = F(1)

(* Excess heat of month m, normalised [Kh], written out from the inputs and
   the utilization factor of the constructed object. *)
QExcess(m) ==
    NpDiv(Mul(NpDiv(Mul(Mul(Sub(F(1), obj.eta_util_overh_sec_i_m[m]),
                            Sub(F(1), F(0))),
                        Add(call.Q_int[m], call.Q_solar[m])),
                    Add(call.H_trans, call.H_vent_m[m])),
              F(1000)),
          Norm(36, 10))

RECURSIVE SumQExcess(_)
SumQExcess(n) == IF n = 0 THEN F(0) ELSE Add(SumQExcess(n - 1), QExcess(n))

(* C12: the yearly overheating degree is the sum over the months of
   Q_excess[m] = (1 - eta[m]) * (1 - 0) * (Q_int[m] + Q_solar[m])
                 / (H_trans + H_vent_m[m]) * 1000 / 3.6,
   where month m uses its own ventilation coefficient H_vent_m[m] and the
   geometric-cooling fraction is fixed at 0. *)
C12_YearlyOverheatingDegree ==
    obj.type = "OverHeatingRisk" =>
        obj.I_overh_sec_i = SumQExcess(Len(call.Q_int))

(* Both months contribute a positive excess, with different ventilation
   coefficients. *)
C12_Witness ==
    /\ obj.type = "OverHeatingRisk"
    /\ call.H_vent_m[1] # call.H_vent_m[2]
    /\ Gt(QExcess(1), F(0))
    /\ Gt(QExcess(2), F(0))
    /\ obj.I_overh_sec_i = Add(QExcess(1), QExcess(2))

(* C13: net cooling demand of month m equals
   p_cool * (1 - 0) * (Q_int[m] + Q_solar[m] - eta[m] * (Q_trans[m] + Q_vent[m]))
   * f_allow[m], with the same scalar p_cool in every month; hence with
   p_cool = 0 it is 0 in every month, and it is 0 in every month whose lambda
   is >= 2.5. *)
C13_NetCoolingDemandGated ==
    obj.type = "NetCoolingNeeds" =>
        \A m \in 1..Len(obj.Q_cool_net_sec_i_m) :
            /\ obj.Q_cool_net_sec_i_m[m] =
                 Mul(Mul(Mul(call.p_cool_sec_i, Sub(F(1), F(0))),
                         Sub(Gain(call, m),
                             Mul(obj.eta_util_cool_sec_i_m[m], Loss(call, m)))),
                     obj.f_allow_cool_sec_i_m[m])
            /\ call.p_cool_sec_i = F(0) => obj.Q_cool_net_sec_i_m[m] = F(0)
            /\ Ge(obj.lambda_cool_sec_i_m[m], Norm(5, 2))
                 => obj.Q_cool_net_sec_i_m[m] = F(0)

(* What the code does satisfy: the formula in every month, and the two zero
   results in every month whose lambda is a finite number. *)
NetCoolingDemandGatedWhenFinite ==
    obj.type = "NetCoolingNeeds" =>
        \A m \in 1..Len(obj.Q_cool_net_sec_i_m) :
            /\ obj.Q_cool_net_sec_i_m[m] =
                 Mul(Mul(Mul(call.p_cool_sec_i, Sub(F(1), F(0))),
                         Sub(Gain(call, m),
                             Mul(obj.eta_util_cool_sec_i_m[m], Loss(call, m)))),
                     obj.f_allow_cool_sec_i_m[m])
            /\ IsFinite(obj.lambda_cool_sec_i_m[m]) =>
                 /\ call.p_cool_sec_i = F(0) => obj.Q_cool_net_sec_i_m[m] = F(0)
                 /\ Ge(obj.lambda_cool_sec_i_m[m], Norm(5, 2))
                      => obj.Q_cool_net_sec_i_m[m] = F(0)

(* C14: the heating and overheating ratios are gains over losses,
   (Q_int[m] + Q_solar[m]) / (Q_trans[m] + Q_vent[m]); the cooling ratio is
   losses over gains; for the same non-zero gains and losses of a month the
   cooling ratio is the reciprocal of the heating ratio. *)
C14_RatioDirections ==
    /\ obj.type = "NetHeatingNeeds" =>
         \A m \in 1..Len(obj.gamma_heat_sec_i_m) :
            /\ obj.gamma_heat_sec_i_m[m] = NpDiv(Gain(call, m), Loss(call, m))
            /\ (Gain(call, m) # F(0) /\ Loss(call, m) # F(0)) =>
                 cool_heat_balance_ratio(call.Q_solar, call.Q_int,
                                         call.Q_trans, call.Q_vent)[m]
                    = NpDiv(F(1), obj.gamma_heat_sec_i_m[m])
    /\ obj.type = "OverHeatingRisk" =>
         \A m \in 1..Len(obj.gamma_overh_sec_i_m) :
            obj.gamma_overh_sec_i_m[m] = NpDiv(Gain(call, m), Loss(call, m))
    /\ obj.type = "NetCoolingNeeds" =>
         \A m \in 1..Len(obj.lambda_cool_sec_i_m) :
            /\ obj.lambda_cool_sec_i_m[m] = NpDiv(Loss(call, m), Gain(call, m))
            /\ (Gain(call, m) # F(0) /\ Loss(call, m) # F(0)) =>
                 obj.lambda_cool_sec_i_m[m]
                    = NpDiv(F(1), heat_balance_ratio(call.Q_solar, call.Q_int,
                                      call.Q_trans, call.Q_vent)[m])

(* Losses 15 against gains 10: the cooling ratio is 3/2 where the heating
   ratio of the same month is 2/3. *)
C14_Witness ==
    /\ obj.type = "NetCoolingNeeds"
    /\ Loss(call, 1) = F(15)
    /\ Gain(call, 1) = F(10)
    /\ obj.lambda_cool_sec_i_m[1] = Norm(3, 2)
    /\ heat_balance_ratio(call.Q_solar, call.Q_int,
                          call.Q_trans, call.Q_vent)[1] = Norm(2, 3)

(* Temperature differences [K] of month m: heating against 18 degC,
   overheating and cooling against 23 degC with the outdoor temperature
   raised by 1 K. *)
dTHeat(m) == Sub(F(18), call.T_e_m[m])

dTOverh(m) == Sub(F(23), Add(call.T_e_m[m], F(1)))

LossOf(H, dT, m) == Mul(Mul(H, dT), call.t_m[m])

(* C15: for every month m, transmission and ventilation losses equal
   H * dT[m] * t_m[m], with dT[m] = 18 - T_e_m[m] for heating and
   dT[m] = 23 - (T_e_m[m] + 1) for overheating and cooling; H is the
   purpose's scalar H_trans for transmission, the scalar H_vent_heat for
   heating ventilation, and month m's own H_vent_overh_m[m] / H_vent_cool_m[m]
   for overheating / cooling ventilation. *)
C15_LossFormulas ==
    /\ obj.type = "TransmissionLosses" =>
         \A m \in 1..Len(call.T_e_m) :
            /\ obj.Q_trans_heat_sec_i_m[m]
                 = LossOf(call.H_trans_heat_sec_i, dTHeat(m), m)
            /\ obj.Q_trans_overh_sec_i_m[m]
                 = LossOf(call.H_trans_overh_sec_i, dTOverh(m), m)
            /\ obj.Q_trans_cool_sec_i_m[m]
                 = LossOf(call.H_trans_cool_sec_i, dTOverh(m), m)
    /\ obj.type = "VentilationLosses" =>
         \A m \in 1..Len(call.T_e_m) :
            /\ obj.Q_vent_heat_sec_i_m[m]
                 = LossOf(call.H_vent_heat_sec_i, dTHeat(m), m)
            /\ obj.Q_vent_overh_sec_i_m[m]
                 = LossOf(call.H_vent_overh_sec_i_m[m], dTOverh(m), m)
            /\ obj.Q_vent_cool_sec_i_m[m]
                 = LossOf(call.H_vent_cool_sec_i_m[m], dTOverh(m), m)

(* Outdoor 3.2 degC in month 2, whose own overheating coefficient is 30 and
   differs from month 1's: the loss is 30 * 18.8 * t_m[2], while the heating
   loss uses 14.8 K. *)
C15_Witness ==
    /\ obj.type = "VentilationLosses"
    /\ call.T_e_m[2] = Norm(32, 10)
    /\ call.H_vent_overh_sec_i_m[1] = F(10)
    /\ call.H_vent_overh_sec_i_m[2] = F(30)
    /\ obj.Q_vent_overh_sec_i_m[2] = Mul(F(564), call.t_m[2])
    /\ obj.Q_vent_heat_sec_i_m[2]
         = Mul(Mul(call.H_vent_heat_sec_i, Norm(148, 10)), call.t_m[2])

(* Sector DHW demand per unit of month length [MJ/Ms] at volume V: 80 up to
   192 m3, and 80 + (0.220 + 0.055) * (V - 192) above. *)
DhwRate(V) ==
    IF Le(V, F(192)) THEN F(80)
    ELSE Add(F(80), Mul(Norm(275, 1000), Sub(V, F(192))))

(* The DHW series of the completed call, from the class or the function. *)
HasDhw ==
    \/ obj.type = "NetDHWNeeds"
    \/ (obj.type = "ndarray" /\ call.op = "net_dhw_demand")

DhwOf == IF obj.type = "NetDHWNeeds" THEN obj.Q_water_sec_i_net_m ELSE obj.value

DefaultCounts ==
    call.op = "NetDHWNeeds" \/ (call.N_bath = F(1) /\ call.N_sink = F(1))

(* C16: with the default counts and reduction factors (N_bath = N_sink = 1,
   r_bath = r_sink = 1) the DHW demand of month m is
   (max(64, 64 + 0.220*(V - 192)) + max(16, 16 + 0.055*(V - 192))) * t_m[m];
   it is proportional to t_m[m], and for every V <= 192 it is exactly
   80 * t_m[m] whatever V is. *)
C16_DhwDefaultDemand ==
    (HasDhw /\ DefaultCounts) =>
        /\ Len(DhwOf) = Len(call.t_m)
        /\ \A m \in 1..Len(call.t_m) :
            /\ DhwOf[m] = Mul(DhwRate(call.V_sec_i), call.t_m[m])
            /\ Le(call.V_sec_i, F(192)) => DhwOf[m] = Mul(F(80), call.t_m[m])

(* The class at V = 300: (87.76 + 21.94) * t_m = 109.7 * t_m. *)
C16_Witness ==
    /\ obj.type = "NetDHWNeeds"
    /\ call.V_sec_i = F(300)
    /\ obj.Q_water_sec_i_net_m[1] = Mul(Norm(1097, 10), call.t_m[1])

(* C17: the per-point demand scales inversely with the count (Q_bath is
   proportional to 1/N_bath, Q_sink to 1/N_sink), so the sector total
   N_bath*Q_bath[m] + N_sink*Q_sink[m] is the same for every N_bath > 0 and
   N_sink > 0 at fixed V, t_m and reduction factors. *)
C17_DhwTotalIndependentOfCounts ==
    (obj.type = "ndarray" /\ call.op = "net_dhw_demand") =>
        \A m \in 1..Len(call.t_m) :
            /\ Mul(call.N_bath,
                   net_dhw_demand_bath(call.V_sec_i, F(1), call.N_bath,
                                       call.t_m)[m])
                 = net_dhw_demand_bath(call.V_sec_i, F(1), F(1), call.t_m)[m]
            /\ Mul(call.N_sink,
                   net_dhw_demand_sink(call.V_sec_i, F(1), call.N_sink,
                                       call.t_m)[m])
                 = net_dhw_demand_sink(call.V_sec_i, F(1), F(1), call.t_m)[m]
            /\ obj.value[m] = Mul(DhwRate(call.V_sec_i), call.t_m[m])

(* Two baths and three sinks at V = 300 give the same 109.7 * t_m as one of
   each. *)
C17_Witness ==
    /\ obj.type = "ndarray"
    /\ call.op = "net_dhw_demand"
    /\ call.N_bath = F(2)
    /\ call.N_sink = F(3)
    /\ call.V_sec_i = F(300)
    /\ obj.value[1] = Mul(Norm(1097, 10), call.t_m[1])

(* C18: the DHW computation has exactly one error condition: with
   N_bath = 0 or N_sink = 0 the reciprocal 1/N raises a division-by-zero
   error and no demand series is produced; for every N_bath > 0 and
   N_sink > 0 it returns a series without error. *)
C18_DhwOnlyErrorIsZeroCount ==
    /\ (call.op = "net_dhw_demand" /\ Done) =>
         /\ (call.N_bath = F(0) \/ call.N_sink = F(0)) =>
                (err = "ZeroDivisionError" /\ obj.type = "none")
         /\ (Gt(call.N_bath, F(0)) /\ Gt(call.N_sink, F(0))) =>
                /\ err = "none"
                /\ obj.type = "ndarray"
                /\ Len(obj.value) = Len(call.t_m)
    /\ (call.op = "NetDHWNeeds" /\ Done) =>
         (err = "none" /\ obj.type = "NetDHWNeeds")

(* Two baths and no sink: the call raised and left no series. *)
C18_Witness ==
    /\ call.op = "net_dhw_demand"
    /\ call.N_bath = F(2)
    /\ call.N_sink = F(0)
    /\ err = "ZeroDivisionError"
    /\ obj.type = "none"

(* The monthly input sequences of a call. *)
MonthlyFields ==
    {"t_m", "T_e_m", "Q_solar", "Q_int", "Q_trans", "Q_vent", "H_vent_m",
     "H_vent_overh_sec_i_m", "H_vent_cool_sec_i_m"}

MonthlyInputs(c) == {c[f] : f \in (DOMAIN c) \cap MonthlyFields}

(* C19: a monthly input sequence whose length is not exactly 12 is rejected
   with an error before any computation is performed; no component returns
   a result for such an input. *)
C19_LengthTwelveEnforced ==
    (Done /\ \E s \in MonthlyInputs(call) : Len(s) # 12) =>
        (err # "none" /\ obj.type = "none")

(* C20: every component is deterministic: a second evaluation of the same
   component on identical inputs yields the identical outcome (result or
   exception), whatever was evaluated before. *)
C20_Deterministic ==
    (prev.type = "done" /\ Done) => (obj = prev.obj /\ err = prev.err)

(* A net heating computation was evaluated twice and both evaluations
   produced a demand series with a positive first month. *)
C20_Witness ==
    /\ prev.type = "done"
    /\ prev.obj.type = "NetHeatingNeeds"
    /\ obj.type = "NetHeatingNeeds"
    /\ Gt(obj.Q_heat_net_sec_i_m[1], F(0))

(* 1 + g + ... + g^k *)
RECURSIVE GeoSum(_, _)
GeoSum(g, k) == IF k = 0 THEN F(1) ELSE Add(GeoSum(g, k - 1), PowInt(g, k))

(* C21: the singularity at ratio = 1 is removable: for every integer a >= 1
   and every ratio g != 1 with a non-zero denominator,
   (1 - g^a) / (1 - g^(a+1)) equals
   (1 + g + ... + g^(a-1)) / (1 + g + ... + g^a), and the value a/(a+1) of the
   exact-equality branch is that expression evaluated at g = 1. *)
C21_RemovableSingularity ==
    obj.type = "NetHeatingNeeds" =>
        LET a == AParam(call.C_sec_i, Add(call.H_trans, call.H_vent))
        IN  (a[2] = 1 /\ a[1] >= 1) =>
              \A m \in 1..Len(obj.gamma_heat_sec_i_m) :
                LET g == obj.gamma_heat_sec_i_m[m]
                IN  (IsFinite(g)
                     /\ (g # F(1) => Sub(F(1), PowInt(g, a[1] + 1)) # F(0))) =>
                        obj.eta_util_heat_sec_i_m[m]
                            = NpDiv(GeoSum(g, a[1] - 1), GeoSum(g, a[1]))

(* With a = 3: ratio exactly 1 gives 3/4 = (1+1+1)/(1+1+1+1), and ratio 5/4
   gives 244/369 by either expression. *)
C21_Witness ==
    /\ obj.type = "NetHeatingNeeds"
    /\ call.C_sec_i = F(216000)
    /\ obj.gamma_heat_sec_i_m[1] = F(1)
    /\ obj.eta_util_heat_sec_i_m[1] = Norm(3, 4)
    /\ obj.gamma_heat_sec_i_m[2] = Norm(5, 4)
    /\ obj.eta_util_heat_sec_i_m[2] = Norm(244, 369)

(* The triple the OverHeatingRisk constructor computes for the arguments of
   call c. *)
ClassOverheatingTriple(c) ==
    LET gamma == overh_heat_balance_ratio(c.Q_solar, c.Q_int, c.Q_trans, c.Q_vent)
        eta == utilization_factor_overheating(c.C_sec_i, c.H_trans, c.H_vent_m,
                                              gamma)
        I == yearly_overheating_degree(c.Q_int, c.Q_solar, eta, c.H_trans,
                                       c.H_vent_m)
    IN  <<I, active_cooling_probability(I), time_fraction_over_25C(I)>>

(* C22: the class-based and the function-based variants compute the same
   results: for identical inputs NetHeatingNeeds(...).Q_heat_net_sec_i_m
   equals net_heating_demand(...) in every month, and OverHeatingRisk(...)'s
   (I_overh_sec_i, p_cool_sec_i, f_cool_sec_i) equals the triple returned by
   yearly_overheating_degree(...). *)
C22_ClassAndFunctionAgree ==
    /\ (call.op = "net_heating_demand" /\ Done) =>
         IF PyDivRaises(Add(call.H_trans, call.H_vent))
         THEN err = "ZeroDivisionError" /\ obj.type = "none"
         ELSE /\ err = "none"
              /\ obj.value = NetHeatingNeeds_init(call).Q_heat_net_sec_i_m
    /\ obj.type = "NetHeatingNeeds" =>
         obj.Q_heat_net_sec_i_m = fn_net_heating_demand_value(call)
    /\ (call.op = "yearly_overheating_degree" /\ Done) =>
         (err = "none" /\ obj.value = ClassOverheatingTriple(call))
    /\ obj.type = "OverHeatingRisk" =>
         <<obj.I_overh_sec_i, obj.p_cool_sec_i, obj.f_cool_sec_i>>
            = fn_yearly_overheating_degree_value(call)

(* The function returned a heating series with a positive second month
   (ratio 11/10), equal to the class's. *)
C22_Witness ==
    /\ call.op = "net_heating_demand"
    /\ obj.type = "ndarray"
    /\ Loss(call, 2) = F(10)
    /\ Gain(call, 2) = F(11)
    /\ Gt(obj.value[2], F(0))
    /\ obj.value = NetHeatingNeeds_init(call).Q_heat_net_sec_i_m

(* C23: the two gains-and-losses variants agree: for every H, T_e_m and t_m
   the function variant's transmission_losses_heating / _overheating /
   _cooling (the generic H * (T_i - T_e) * t helper with T_i = 18, or
   T_i = 23 and T_e shifted by +1) return the same monthly values as the
   TransmissionLosses class methods of the same names. *)
C23_TransmissionVariantsAgree ==
    /\ (call.op = "transmission_losses_heating" /\ Done) =>
         (err = "none"
          /\ obj.value = transmission_losses_heating(call.H_trans_sec_i,
                                                     call.T_e_m, call.t_m))
    /\ (call.op = "transmission_losses_overheating" /\ Done) =>
         (err = "none"
          /\ obj.value = transmission_losses_overheating(call.H_trans_sec_i,
                                                         call.T_e_m, call.t_m))
    /\ (call.op = "transmission_losses_cooling" /\ Done) =>
         (err = "none"
          /\ obj.value = transmission_losses_cooling(call.H_trans_sec_i,
                                                     call.T_e_m, call.t_m))
    /\ obj.type = "TransmissionLosses" =>
         /\ obj.Q_trans_heat_sec_i_m
              = fn_transmission_losses_heating_value(call.H_trans_heat_sec_i,
                                                     call.T_e_m, call.t_m)
         /\ obj.Q_trans_overh_sec_i_m
              = fn_transmission_losses_overheating_value(
                    call.H_trans_overh_sec_i, call.T_e_m, call.t_m)
         /\ obj.Q_trans_cool_sec_i_m
              = fn_transmission_losses_cooling_value(
                    call.H_trans_cool_sec_i, call.T_e_m, call.t_m)

(* The overheating function at 3.2 degC outdoors: 18.8 K times H and t_m, as
   the class method gives. *)
C23_Witness ==
    /\ call.op = "transmission_losses_overheating"
    /\ obj.type = "ndarray"
    /\ call.T_e_m[1] = Norm(32, 10)
    /\ obj.value[1] = Mul(Mul(call.H_trans_sec_i, Norm(188, 10)), call.t_m[1])
    /\ obj.value = transmission_losses_overheating(call.H_trans_sec_i,
                                                   call.T_e_m, call.t_m)

(* C24: no operation updates its inputs in place: a step of any operation
   leaves the caller's arguments as they were. In particular after the
   function variant's transmission_losses_overheating / _cooling (which
   rebind T_e_m = T_e_m + 1) the caller's T_e_m is unchanged, and after
   constructing NetHeatingNeeds / NetCoolingNeeds the gain and loss series
   passed in hold the same values. *)
C24_InputsNotMutated == [][call' = call]_vars

(* A cooling transmission loss computed with 26 degC while the caller's
   array still reads 25 degC. *)
C24_Witness ==
    /\ call.op = "transmission_losses_cooling"
    /\ obj.type = "ndarray"
    /\ call.T_e_m[1] = F(25)
    /\ obj.value[1] = Mul(Mul(call.H_trans_sec_i, Sub(F(23), F(26))),
                          call.t_m[1])
    /\ Lt(obj.value[1], F(0))

(* The sign of a loss sum d follows the outdoor temperature T around the
   threshold: positive exactly below it, zero exactly at it, negative above. *)
SignFollowsThreshold(d, T, threshold) ==
    /\ Gt(d, F(0)) <=> Lt(T, threshold)
    /\ d = F(0) <=> T = threshold
    /\ Gt(T, threshold) => Lt(d, F(0))

(* C25: given H_trans + H_vent > 0 and t_m[m] > 0, the heating ratio's
   denominator Q_trans_heat[m] + Q_vent_heat[m] is > 0 exactly when
   T_e_m[m] < 18, = 0 exactly when T_e_m[m] = 18 and < 0 when T_e_m[m] > 18;
   for overheating and cooling the threshold is 22. *)
C25_LossSignByTemperature ==
    obj.type = "TransmissionLosses" =>
        \A m \in 1..Len(call.T_e_m) :
            /\ Gt(call.t_m[m], F(0))
            /\ \A H_vent_heat_sec_i \in HVentHeatVals :
                  /\ Gt(Add(call.H_trans_heat_sec_i, H_vent_heat_sec_i), F(0))
                  /\ SignFollowsThreshold(
                        Add(obj.Q_trans_heat_sec_i_m[m],
                            ventilation_losses_heating(
                                H_vent_heat_sec_i, call.T_e_m, call.t_m)[m]),
                        call.T_e_m[m], F(18))
            /\ \A H_vent_m \in HVentLossSeries :
                  /\ SignFollowsThreshold(
                        Add(obj.Q_trans_overh_sec_i_m[m],
                            ventilation_losses_overheating(
                                H_vent_m, call.T_e_m, call.t_m)[m]),
                        call.T_e_m[m], F(22))
                  /\ SignFollowsThreshold(
                        Add(obj.Q_trans_cool_sec_i_m[m],
                            ventilation_losses_cooling(
                                H_vent_m, call.T_e_m, call.t_m)[m]),
                        call.T_e_m[m], F(22))

(* Month 1 at exactly 18 degC has zero heating loss, month 2 at 22 degC has
   negative heating loss and zero overheating loss. *)
C25_Witness ==
    /\ obj.type = "TransmissionLosses"
    /\ call.T_e_m[1] = F(18)
    /\ call.T_e_m[2] = F(22)
    /\ obj.Q_trans_heat_sec_i_m[1] = F(0)
    /\ Lt(obj.Q_trans_heat_sec_i_m[2], F(0))
    /\ Gt(obj.Q_trans_overh_sec_i_m[1], F(0))
    /\ obj.Q_trans_overh_sec_i_m[2] = F(0)

(* C26: the allowance gate does not suppress months with negative losses: in
   a month whose heating losses are negative (outdoor temperature above
   18 degC) and whose gains are positive the ratio is negative, so
   f_allow_heat = 1 and Q_heat_net is the ungated balance
   Q_loss - eta * Q_gain, not forced to 0. *)
C26_NegativeLossesNotGated ==
    obj.type = "NetHeatingNeeds" =>
        \A m \in 1..Len(obj.Q_heat_net_sec_i_m) :
            (Lt(Loss(call, m), F(0)) /\ Gt(Gain(call, m), F(0))) =>
                /\ Lt(obj.gamma_heat_sec_i_m[m], F(0))
                /\ obj.f_allow_heat_sec_i_m[m] = F(1)
                /\ obj.Q_heat_net_sec_i_m[m]
                     = Sub(Loss(call, m),
                           Mul(obj.eta_util_heat_sec_i_m[m], Gain(call, m)))
                /\ obj.Q_heat_net_sec_i_m[m] # F(0)

(* Losses -2 and gains 1 with a = 2: ratio -1/2, factor 2/3, demand -8/3. *)
C26_Witness ==
    /\ obj.type = "NetHeatingNeeds"
    /\ Loss(call, 1) = F(-2)
    /\ Gain(call, 1) = F(1)
    /\ obj.gamma_heat_sec_i_m[1] = Norm(-1, 2)
    /\ obj.f_allow_heat_sec_i_m[1] = F(1)
    /\ obj.eta_util_heat_sec_i_m[1] = Norm(2, 3)
    /\ obj.Q_heat_net_sec_i_m[1] = Norm(-8, 3)

(* C27: with array inputs a month whose heating losses are exactly 0 while
   its gains are positive does not abort the calculation: the month's ratio
   is +inf, f_allow_heat is 0, the utilization factor is NaN and Q_heat_net
   is NaN (not 0); the other months are unaffected and carry the values of
   their own ratio. *)
C27_ZeroLossMonthGivesNaN ==
    (/\ call.op = "NetHeatingNeeds"
     /\ Done
     /\ ~PyDivRaises(Add(call.H_trans, call.H_vent))) =>
        /\ err = "none"
        /\ obj.type = "NetHeatingNeeds"
        /\ \A m \in 1..Len(call.Q_trans) :
              IF Loss(call, m) = F(0)
              THEN Gt(Gain(call, m), F(0)) =>
                     /\ obj.gamma_heat_sec_i_m[m] = PInf
                     /\ obj.f_allow_heat_sec_i_m[m] = F(0)
                     /\ obj.eta_util_heat_sec_i_m[m] = NaN
                     /\ obj.Q_heat_net_sec_i_m[m] = NaN
              ELSE /\ obj.gamma_heat_sec_i_m[m]
                        = NpDiv(Gain(call, m), Loss(call, m))
                   /\ obj.eta_util_heat_sec_i_m[m]
                        = UtilFormula(obj.gamma_heat_sec_i_m[m],
                                      AParam(call.C_sec_i,
                                             Add(call.H_trans, call.H_vent)))
                   /\ obj.Q_heat_net_sec_i_m[m]
                        = Mul(Sub(Loss(call, m),
                                  Mul(obj.eta_util_heat_sec_i_m[m],
                                      Gain(call, m))),
                              obj.f_allow_heat_sec_i_m[m])

(* Month 1 without losses and gains of 10 is NaN; month 2 with losses and
   gains of 10 has ratio 1 and a finite positive demand. *)
C27_Witness ==
    /\ obj.type = "NetHeatingNeeds"
    /\ Loss(call, 1) = F(0) /\ Gain(call, 1) = F(10)
    /\ Loss(call, 2) = F(10) /\ Gain(call, 2) = F(10)
    /\ obj.gamma_heat_sec_i_m = <<PInf, F(1)>>
    /\ obj.Q_heat_net_sec_i_m[1] = NaN
    /\ Gt(obj.Q_heat_net_sec_i_m[2], F(0))

(* C28: utilization_factor_overheating and utilization_factor_cooling pair
   month m's ventilation coefficient with month m's ratio and return one
   element per pair: when the H_vent series and the ratio series have
   different lengths the result silently has the length of the shorter one
   and no error is raised; for two inputs of full length the result has that
   length, in calendar order. *)
C28_PairedByMonthShorterLength ==
    (call.op \in {"utilization_factor_overheating",
                  "utilization_factor_cooling"} /\ Done) =>
        /\ err = "none"
        /\ obj.type = "ndarray"
        /\ Len(obj.value) = IF Len(call.H_vent_m) <= Len(call.ratio)
                            THEN Len(call.H_vent_m) ELSE Len(call.ratio)
        /\ (Len(call.H_vent_m) = NMonths /\ Len(call.ratio) = NMonths)
              => Len(obj.value) = NMonths
        /\ \A m \in 1..Len(obj.value) :
              obj.value[m]
                = UtilFormula(call.ratio[m],
                              AParam(call.C_sec_i,
                                     Add(call.H_trans, call.H_vent_m[m])))
        /\ obj.value
             = IF call.op = "utilization_factor_overheating"
               THEN utilization_factor_overheating(
                        call.C_sec_i, call.H_trans, call.H_vent_m, call.ratio)
               ELSE utilization_factor_cooling(
                        call.C_sec_i, call.H_trans, call.H_vent_m, call.ratio)

(* One ventilation coefficient (3, so a = 2) against two ratios: a single
   element, (1 - 1/4) / (1 - 1/8) = 6/7, and no error. *)
C28_Witness ==
    /\ call.op = "utilization_factor_overheating"
    /\ Done
    /\ err = "none"
    /\ call.H_vent_m = <<F(3)>>
    /\ call.ratio = <<Norm(1, 2), F(2)>>
    /\ obj.value = <<Norm(6, 7)>>
====
